---- MODULE Spec2Model ----
(***************************************************************************)
(* Comment service of yun-comments: the cursor codec, the cache-wrapped    *)
(* read queries and the write path of app/services/comment_service.py,     *)
(* the sliding-window limiter of app/utils/rate_limiter.py, and the        *)
(* endpoint POST /api/comments of app/api/comments.py.                     *)
(*                                                                         *)
(* Text is the sequence of the bytes of its UTF-8 encoding, each byte a    *)
(* one-character string (a byte that is no printable ASCII character is    *)
(* the atom "xHH").  The clock counts seconds from 2024-01-01T00:00:00     *)
(* UTC.  The database is PostgreSQL with the collation "C" and a session   *)
(* in the time zone UTC; the interpreter is Python 3.11 (Unicode 14.0).    *)
(***************************************************************************)
EXTENDS Integers, Sequences, FiniteSets, TLC

VARIABLES
    store,      \* the comments table: row i is the comment with id i
    cache,      \* redis string keys: key text -> [value, expires]
    clock,      \* seconds, the value of now() / time.time()
    ticks,      \* number of clock advances so far
    zsets,      \* redis sorted sets of the limiter: key -> [members, expires]
    lim,        \* the most recent limiter check and the history of checks
    codec,      \* one cursor being encoded and decoded
    gate,       \* one submitted content on its way through the content checks
    keyed,      \* one read query and the cache key made for it
    http,       \* the most recent POST /api/comments and its response
    loc,        \* one call of get_location and the comment created with it
    ipreq,      \* one request's headers and peer, and the client IP made of them
    txn,        \* the database session of the write request under way
    call,       \* one call of create_comment, step by step
    insts,      \* the limiter checks of several server instances on one key
    reader,     \* one call of get_comments or get_page_stats, step by step
    mw,         \* one request on its way through rate_limit_middleware
    env         \* what the deployment fixes: versions, builds, settings

vars == <<store, cache, clock, ticks, zsets, lim, codec, gate, keyed, http,
          loc, env, ipreq, txn, call, insts, reader, mw>>

\* the handlers followed step by step
steppers == <<call, insts, reader, mw>>

\* the variables of the helpers checked on their own
helpers == <<loc, env, ipreq, txn, steppers>>

-----------------------------------------------------------------------------
(* Bounds of the model *)

MaxComments == 2
MaxCacheKeys == 1
MaxTicks == 1
MaxLimit == 2
MaxRate == 2
MaxWindow == 2
MaxChecks == 3
MaxLimClock == 3
MaxCodecId == 4
MaxCodecInt == 4
MaxCodecTime == 3
MaxTerms == 2
MaxPartLen == 2
MaxWaits == 2
MaxThread == 3
MaxInstances == 2
MaxLookups == 2
MaxHits == 11

-----------------------------------------------------------------------------
(* Text *)

\* Optional values
None == <<>>
Some(x) == <<x>>

\* the 256 bytes in order: BYTES[n + 1] is the byte n
BYTES ==
    <<"x00", "x01", "x02", "x03", "x04", "x05", "x06", "x07", "x08", "\t",
      "\n", "x0B", "\f", "\r", "x0E", "x0F", "x10", "x11", "x12", "x13",
      "x14", "x15", "x16", "x17", "x18", "x19", "x1A", "x1B", "x1C", "x1D",
      "x1E", "x1F", " ", "!", "\"", "#", "$", "%", "&", "'", "(", ")", "*",
      "+", ",", "-", ".", "/", "0", "1", "2", "3", "4", "5", "6", "7", "8",
      "9", ":", ";", "<", "=", ">", "?", "@", "A", "B", "C", "D", "E", "F",
      "G", "H", "I", "J", "K", "L", "M", "N", "O", "P", "Q", "R", "S", "T",
      "U", "V", "W", "X", "Y", "Z", "[", "\\", "]", "^", "_", "x60", "a",
      "b", "c", "d", "e", "f", "g", "h", "i", "j", "k", "l", "m", "n", "o",
      "p", "q", "r", "s", "t", "u", "v", "w", "x", "y", "z", "{", "|", "}",
      "~", "x7F", "x80", "x81", "x82", "x83", "x84", "x85", "x86", "x87",
      "x88", "x89", "x8A", "x8B", "x8C", "x8D", "x8E", "x8F", "x90", "x91",
      "x92", "x93", "x94", "x95", "x96", "x97", "x98", "x99", "x9A", "x9B",
      "x9C", "x9D", "x9E", "x9F", "xA0", "xA1", "xA2", "xA3", "xA4", "xA5",
      "xA6", "xA7", "xA8", "xA9", "xAA", "xAB", "xAC", "xAD", "xAE", "xAF",
      "xB0", "xB1", "xB2", "xB3", "xB4", "xB5", "xB6", "xB7", "xB8", "xB9",
      "xBA", "xBB", "xBC", "xBD", "xBE", "xBF", "xC0", "xC1", "xC2", "xC3",
      "xC4", "xC5", "xC6", "xC7", "xC8", "xC9", "xCA", "xCB", "xCC", "xCD",
      "xCE", "xCF", "xD0", "xD1", "xD2", "xD3", "xD4", "xD5", "xD6", "xD7",
      "xD8", "xD9", "xDA", "xDB", "xDC", "xDD", "xDE", "xDF", "xE0", "xE1",
      "xE2", "xE3", "xE4", "xE5", "xE6", "xE7", "xE8", "xE9", "xEA", "xEB",
      "xEC", "xED", "xEE", "xEF", "xF0", "xF1", "xF2", "xF3", "xF4", "xF5",
      "xF6", "xF7", "xF8", "xF9", "xFA", "xFB", "xFC", "xFD", "xFE", "xFF">>

\* the number of each of the bytes
OrdTable(bytes) ==
    [b \in {bytes[i] : i \in 1..256} |->
        (CHOOSE i \in 1..256 : bytes[i] = b) - 1]

ORD == OrdTable(BYTES)

\* the number of a byte
Ord(b) == ORD[b]

\* the numbers of the bytes of a text
Codes(s) == [i \in 1..Len(s) |-> ORD[s[i]]]

\* the least and the greatest number of a set that is not empty
Least(S) == CHOOSE i \in S : \A j \in S : i <= j
Greatest(S) == CHOOSE i \in S : \A j \in S : j <= i

\* the byte of a number
Chr(n) == BYTES[n + 1]

DIGITS == <<"0", "1", "2", "3", "4", "5", "6", "7", "8", "9">>

IsDigit(c) == \E i \in 1..10 : DIGITS[i] = c

DigitValue(c) == (CHOOSE i \in 1..10 : DIGITS[i] = c) - 1

\* str(n) of a non-negative int
RECURSIVE Decimal(_)
Decimal(n) ==
    IF n < 10 THEN <<DIGITS[n + 1]>>
    ELSE Decimal(n \div 10) \o <<DIGITS[(n % 10) + 1]>>

\* int(s) of a non-empty digit text
RECURSIVE DecimalValue(_)
DecimalValue(s) ==
    IF Len(s) = 1 THEN DigitValue(s[1])
    ELSE 10 * DecimalValue(SubSeq(s, 1, Len(s) - 1)) + DigitValue(s[Len(s)])

AllDigits(s) == Len(s) > 0 /\ \A i \in 1..Len(s) : IsDigit(s[i])

\* s < t byte by byte, which is the order of the code points
RECURSIVE TextLessBy(_, _, _)
TextLessBy(ord, s, t) ==
    IF Len(t) = 0 THEN FALSE
    ELSE IF Len(s) = 0 THEN TRUE
    ELSE IF s[1] = t[1] THEN TextLessBy(ord, Tail(s), Tail(t))
    ELSE ord[s[1]] < ord[t[1]]

\* s < t byte by byte, which is the order of the code points
TextLess(s, t) == TextLessBy(ORD, s, t)

\* needle in haystack
Contains(haystack, needle) ==
    \E i \in 1..(Len(haystack) - Len(needle) + 1) :
        SubSeq(haystack, i, i + Len(needle) - 1) = needle

RECURSIVE Flatten(_)
Flatten(parts) ==
    IF Len(parts) = 0 THEN <<>>
    ELSE Head(parts) \o Flatten(Tail(parts))

\* the number of bytes of the character whose first byte is n
Width(n) == IF n < 128 THEN 1 ELSE IF n < 224 THEN 2 ELSE IF n < 240 THEN 3 ELSE 4

\* the code point of the character held in the bytes b, given by number
CodePointOf(b) ==
    CASE Len(b) = 1 -> b[1]
      [] Len(b) = 2 -> ((b[1] % 32) * 64) + (b[2] % 64)
      [] Len(b) = 3 -> ((b[1] % 16) * 4096) + ((b[2] % 64) * 64) + (b[3] % 64)
      [] OTHER -> ((b[1] % 8) * 262144) + ((b[2] % 64) * 4096)
                    + ((b[3] % 64) * 64) + (b[4] % 64)

\* the characters of the bytes given by number, as code points
RECURSIVE DecodeUtf8(_)
DecodeUtf8(codes) ==
    IF Len(codes) = 0 THEN <<>>
    ELSE <<CodePointOf(SubSeq(codes, 1, Width(codes[1])))>>
            \o DecodeUtf8(SubSeq(codes, Width(codes[1]) + 1, Len(codes)))

\* the characters of a text, as code points
CodePoints(s) == DecodeUtf8(Codes(s))

\* the bytes of one character, bytes being the table of the bytes
Utf8CharIn(bytes, c) ==
    IF c < 128 THEN <<bytes[c + 1]>>
    ELSE IF c < 2048 THEN <<bytes[193 + (c \div 64)], bytes[129 + (c % 64)]>>
    ELSE IF c < 65536
    THEN <<bytes[225 + (c \div 4096)], bytes[129 + ((c \div 64) % 64)],
           bytes[129 + (c % 64)]>>
    ELSE <<bytes[241 + (c \div 262144)], bytes[129 + ((c \div 4096) % 64)],
           bytes[129 + ((c \div 64) % 64)], bytes[129 + (c % 64)]>>

\* the bytes of one character
Utf8Char(c) == Utf8CharIn(BYTES, c)

\* the texts of the code points
Utf8Chars(bytes, cps) == [i \in 1..Len(cps) |-> Utf8CharIn(bytes, cps[i])]

\* the text of a sequence of code points
Utf8(cps) == Flatten(Utf8Chars(BYTES, cps))

\* the number of the bytes that start a character
Characters(codes) ==
    Cardinality({i \in 1..Len(codes) : codes[i] < 128 \/ codes[i] >= 192})

\* len(s): the number of characters
PyLen(s) == Characters(Codes(s))

\* the simple lowercase mappings of Unicode 14.0, each <<first, last, delta,
\* step>>: the code points first, first + step, ... last map to themselves
\* plus delta (U+03A3 and U+0130 are apart)
LOWER_RANGES ==
    {<<65, 90, 32, 1>>, <<192, 214, 32, 1>>, <<216, 222, 32, 1>>,
      <<256, 302, 1, 2>>, <<306, 310, 1, 2>>, <<313, 327, 1, 2>>,
      <<330, 374, 1, 2>>, <<376, 376, -121, 1>>, <<377, 381, 1, 2>>,
      <<385, 385, 210, 1>>, <<386, 388, 1, 2>>, <<390, 390, 206, 1>>,
      <<391, 391, 1, 1>>, <<393, 394, 205, 1>>, <<395, 395, 1, 1>>,
      <<398, 398, 79, 1>>, <<399, 399, 202, 1>>, <<400, 400, 203, 1>>,
      <<401, 401, 1, 1>>, <<403, 403, 205, 1>>, <<404, 404, 207, 1>>,
      <<406, 406, 211, 1>>, <<407, 407, 209, 1>>, <<408, 408, 1, 1>>,
      <<412, 412, 211, 1>>, <<413, 413, 213, 1>>, <<415, 415, 214, 1>>,
      <<416, 420, 1, 2>>, <<422, 422, 218, 1>>, <<423, 423, 1, 1>>,
      <<425, 425, 218, 1>>, <<428, 428, 1, 1>>, <<430, 430, 218, 1>>,
      <<431, 431, 1, 1>>, <<433, 434, 217, 1>>, <<435, 437, 1, 2>>,
      <<439, 439, 219, 1>>, <<440, 440, 1, 1>>, <<444, 444, 1, 1>>,
      <<452, 452, 2, 1>>, <<453, 453, 1, 1>>, <<455, 455, 2, 1>>,
      <<456, 456, 1, 1>>, <<458, 458, 2, 1>>, <<459, 475, 1, 2>>,
      <<478, 494, 1, 2>>, <<497, 497, 2, 1>>, <<498, 500, 1, 2>>,
      <<502, 502, -97, 1>>, <<503, 503, -56, 1>>, <<504, 542, 1, 2>>,
      <<544, 544, -130, 1>>, <<546, 562, 1, 2>>, <<570, 570, 10795, 1>>,
      <<571, 571, 1, 1>>, <<573, 573, -163, 1>>, <<574, 574, 10792, 1>>,
      <<577, 577, 1, 1>>, <<579, 579, -195, 1>>, <<580, 580, 69, 1>>,
      <<581, 581, 71, 1>>, <<582, 590, 1, 2>>, <<880, 882, 1, 2>>,
      <<886, 886, 1, 1>>, <<895, 895, 116, 1>>, <<902, 902, 38, 1>>,
      <<904, 906, 37, 1>>, <<908, 908, 64, 1>>, <<910, 911, 63, 1>>,
      <<913, 929, 32, 1>>, <<932, 939, 32, 1>>, <<975, 975, 8, 1>>,
      <<984, 1006, 1, 2>>, <<1012, 1012, -60, 1>>, <<1015, 1015, 1, 1>>,
      <<1017, 1017, -7, 1>>, <<1018, 1018, 1, 1>>, <<1021, 1023, -130, 1>>,
      <<1024, 1039, 80, 1>>, <<1040, 1071, 32, 1>>, <<1120, 1152, 1, 2>>,
      <<1162, 1214, 1, 2>>, <<1216, 1216, 15, 1>>, <<1217, 1229, 1, 2>>,
      <<1232, 1326, 1, 2>>, <<1329, 1366, 48, 1>>, <<4256, 4293, 7264, 1>>,
      <<4295, 4295, 7264, 1>>, <<4301, 4301, 7264, 1>>,
      <<5024, 5103, 38864, 1>>, <<5104, 5109, 8, 1>>,
      <<7312, 7354, -3008, 1>>, <<7357, 7359, -3008, 1>>,
      <<7680, 7828, 1, 2>>, <<7838, 7838, -7615, 1>>, <<7840, 7934, 1, 2>>,
      <<7944, 7951, -8, 1>>, <<7960, 7965, -8, 1>>, <<7976, 7983, -8, 1>>,
      <<7992, 7999, -8, 1>>, <<8008, 8013, -8, 1>>, <<8025, 8031, -8, 2>>,
      <<8040, 8047, -8, 1>>, <<8072, 8079, -8, 1>>, <<8088, 8095, -8, 1>>,
      <<8104, 8111, -8, 1>>, <<8120, 8121, -8, 1>>, <<8122, 8123, -74, 1>>,
      <<8124, 8124, -9, 1>>, <<8136, 8139, -86, 1>>, <<8140, 8140, -9, 1>>,
      <<8152, 8153, -8, 1>>, <<8154, 8155, -100, 1>>, <<8168, 8169, -8, 1>>,
      <<8170, 8171, -112, 1>>, <<8172, 8172, -7, 1>>,
      <<8184, 8185, -128, 1>>, <<8186, 8187, -126, 1>>,
      <<8188, 8188, -9, 1>>, <<8486, 8486, -7517, 1>>,
      <<8490, 8490, -8383, 1>>, <<8491, 8491, -8262, 1>>,
      <<8498, 8498, 28, 1>>, <<8544, 8559, 16, 1>>, <<8579, 8579, 1, 1>>,
      <<9398, 9423, 26, 1>>, <<11264, 11311, 48, 1>>, <<11360, 11360, 1, 1>>,
      <<11362, 11362, -10743, 1>>, <<11363, 11363, -3814, 1>>,
      <<11364, 11364, -10727, 1>>, <<11367, 11371, 1, 2>>,
      <<11373, 11373, -10780, 1>>, <<11374, 11374, -10749, 1>>,
      <<11375, 11375, -10783, 1>>, <<11376, 11376, -10782, 1>>,
      <<11378, 11378, 1, 1>>, <<11381, 11381, 1, 1>>,
      <<11390, 11391, -10815, 1>>, <<11392, 11490, 1, 2>>,
      <<11499, 11501, 1, 2>>, <<11506, 11506, 1, 1>>, <<42560, 42604, 1, 2>>,
      <<42624, 42650, 1, 2>>, <<42786, 42798, 1, 2>>, <<42802, 42862, 1, 2>>,
      <<42873, 42875, 1, 2>>, <<42877, 42877, -35332, 1>>,
      <<42878, 42886, 1, 2>>, <<42891, 42891, 1, 1>>,
      <<42893, 42893, -42280, 1>>, <<42896, 42898, 1, 2>>,
      <<42902, 42920, 1, 2>>, <<42922, 42922, -42308, 1>>,
      <<42923, 42923, -42319, 1>>, <<42924, 42924, -42315, 1>>,
      <<42925, 42925, -42305, 1>>, <<42926, 42926, -42308, 1>>,
      <<42928, 42928, -42258, 1>>, <<42929, 42929, -42282, 1>>,
      <<42930, 42930, -42261, 1>>, <<42931, 42931, 928, 1>>,
      <<42932, 42946, 1, 2>>, <<42948, 42948, -48, 1>>,
      <<42949, 42949, -42307, 1>>, <<42950, 42950, -35384, 1>>,
      <<42951, 42953, 1, 2>>, <<42960, 42960, 1, 1>>, <<42966, 42968, 1, 2>>,
      <<42997, 42997, 1, 1>>, <<65313, 65338, 32, 1>>,
      <<66560, 66599, 40, 1>>, <<66736, 66771, 40, 1>>,
      <<66928, 66938, 39, 1>>, <<66940, 66954, 39, 1>>,
      <<66956, 66962, 39, 1>>, <<66964, 66965, 39, 1>>,
      <<68736, 68786, 64, 1>>, <<71840, 71871, 32, 1>>,
      <<93760, 93791, 32, 1>>, <<125184, 125217, 34, 1>>}

\* the case-ignorable characters, in ranges <<first, last>>
CASE_IGNORABLE ==
    {<<39, 39>>, <<46, 46>>, <<58, 58>>, <<94, 94>>, <<96, 96>>,
      <<168, 168>>, <<173, 173>>, <<175, 175>>, <<180, 180>>, <<183, 184>>,
      <<688, 879>>, <<884, 885>>, <<890, 890>>, <<900, 901>>, <<903, 903>>,
      <<1155, 1161>>, <<1369, 1369>>, <<1375, 1375>>, <<1425, 1469>>,
      <<1471, 1471>>, <<1473, 1474>>, <<1476, 1477>>, <<1479, 1479>>,
      <<1524, 1524>>, <<1536, 1541>>, <<1552, 1562>>, <<1564, 1564>>,
      <<1600, 1600>>, <<1611, 1631>>, <<1648, 1648>>, <<1750, 1757>>,
      <<1759, 1768>>, <<1770, 1773>>, <<1807, 1807>>, <<1809, 1809>>,
      <<1840, 1866>>, <<1958, 1968>>, <<2027, 2037>>, <<2042, 2042>>,
      <<2045, 2045>>, <<2070, 2093>>, <<2137, 2139>>, <<2184, 2184>>,
      <<2192, 2193>>, <<2200, 2207>>, <<2249, 2306>>, <<2362, 2362>>,
      <<2364, 2364>>, <<2369, 2376>>, <<2381, 2381>>, <<2385, 2391>>,
      <<2402, 2403>>, <<2417, 2417>>, <<2433, 2433>>, <<2492, 2492>>,
      <<2497, 2500>>, <<2509, 2509>>, <<2530, 2531>>, <<2558, 2558>>,
      <<2561, 2562>>, <<2620, 2620>>, <<2625, 2626>>, <<2631, 2632>>,
      <<2635, 2637>>, <<2641, 2641>>, <<2672, 2673>>, <<2677, 2677>>,
      <<2689, 2690>>, <<2748, 2748>>, <<2753, 2757>>, <<2759, 2760>>,
      <<2765, 2765>>, <<2786, 2787>>, <<2810, 2815>>, <<2817, 2817>>,
      <<2876, 2876>>, <<2879, 2879>>, <<2881, 2884>>, <<2893, 2893>>,
      <<2901, 2902>>, <<2914, 2915>>, <<2946, 2946>>, <<3008, 3008>>,
      <<3021, 3021>>, <<3072, 3072>>, <<3076, 3076>>, <<3132, 3132>>,
      <<3134, 3136>>, <<3142, 3144>>, <<3146, 3149>>, <<3157, 3158>>,
      <<3170, 3171>>, <<3201, 3201>>, <<3260, 3260>>, <<3263, 3263>>,
      <<3270, 3270>>, <<3276, 3277>>, <<3298, 3299>>, <<3328, 3329>>,
      <<3387, 3388>>, <<3393, 3396>>, <<3405, 3405>>, <<3426, 3427>>,
      <<3457, 3457>>, <<3530, 3530>>, <<3538, 3540>>, <<3542, 3542>>,
      <<3633, 3633>>, <<3636, 3642>>, <<3654, 3662>>, <<3761, 3761>>,
      <<3764, 3772>>, <<3782, 3782>>, <<3784, 3789>>, <<3864, 3865>>,
      <<3893, 3893>>, <<3895, 3895>>, <<3897, 3897>>, <<3953, 3966>>,
      <<3968, 3972>>, <<3974, 3975>>, <<3981, 3991>>, <<3993, 4028>>,
      <<4038, 4038>>, <<4141, 4144>>, <<4146, 4151>>, <<4153, 4154>>,
      <<4157, 4158>>, <<4184, 4185>>, <<4190, 4192>>, <<4209, 4212>>,
      <<4226, 4226>>, <<4229, 4230>>, <<4237, 4237>>, <<4253, 4253>>,
      <<4348, 4348>>, <<4957, 4959>>, <<5906, 5908>>, <<5938, 5939>>,
      <<5970, 5971>>, <<6002, 6003>>, <<6068, 6069>>, <<6071, 6077>>,
      <<6086, 6086>>, <<6089, 6099>>, <<6103, 6103>>, <<6109, 6109>>,
      <<6155, 6159>>, <<6211, 6211>>, <<6277, 6278>>, <<6313, 6313>>,
      <<6432, 6434>>, <<6439, 6440>>, <<6450, 6450>>, <<6457, 6459>>,
      <<6679, 6680>>, <<6683, 6683>>, <<6742, 6742>>, <<6744, 6750>>,
      <<6752, 6752>>, <<6754, 6754>>, <<6757, 6764>>, <<6771, 6780>>,
      <<6783, 6783>>, <<6823, 6823>>, <<6832, 6862>>, <<6912, 6915>>,
      <<6964, 6964>>, <<6966, 6970>>, <<6972, 6972>>, <<6978, 6978>>,
      <<7019, 7027>>, <<7040, 7041>>, <<7074, 7077>>, <<7080, 7081>>,
      <<7083, 7085>>, <<7142, 7142>>, <<7144, 7145>>, <<7149, 7149>>,
      <<7151, 7153>>, <<7212, 7219>>, <<7222, 7223>>, <<7288, 7293>>,
      <<7376, 7378>>, <<7380, 7392>>, <<7394, 7400>>, <<7405, 7405>>,
      <<7412, 7412>>, <<7416, 7417>>, <<7468, 7530>>, <<7544, 7544>>,
      <<7579, 7679>>, <<8125, 8125>>, <<8127, 8129>>, <<8141, 8143>>,
      <<8157, 8159>>, <<8173, 8175>>, <<8189, 8190>>, <<8203, 8207>>,
      <<8216, 8217>>, <<8228, 8228>>, <<8231, 8231>>, <<8234, 8238>>,
      <<8288, 8292>>, <<8294, 8303>>, <<8305, 8305>>, <<8319, 8319>>,
      <<8336, 8348>>, <<8400, 8432>>, <<11388, 11389>>, <<11503, 11505>>,
      <<11631, 11631>>, <<11647, 11647>>, <<11744, 11775>>, <<11823, 11823>>,
      <<12293, 12293>>, <<12330, 12333>>, <<12337, 12341>>, <<12347, 12347>>,
      <<12441, 12446>>, <<12540, 12542>>, <<40981, 40981>>, <<42232, 42237>>,
      <<42508, 42508>>, <<42607, 42610>>, <<42612, 42621>>, <<42623, 42623>>,
      <<42652, 42655>>, <<42736, 42737>>, <<42752, 42785>>, <<42864, 42864>>,
      <<42888, 42890>>, <<42994, 42996>>, <<43000, 43001>>, <<43010, 43010>>,
      <<43014, 43014>>, <<43019, 43019>>, <<43045, 43046>>, <<43052, 43052>>,
      <<43204, 43205>>, <<43232, 43249>>, <<43263, 43263>>, <<43302, 43309>>,
      <<43335, 43345>>, <<43392, 43394>>, <<43443, 43443>>, <<43446, 43449>>,
      <<43452, 43453>>, <<43471, 43471>>, <<43493, 43494>>, <<43561, 43566>>,
      <<43569, 43570>>, <<43573, 43574>>, <<43587, 43587>>, <<43596, 43596>>,
      <<43632, 43632>>, <<43644, 43644>>, <<43696, 43696>>, <<43698, 43700>>,
      <<43703, 43704>>, <<43710, 43711>>, <<43713, 43713>>, <<43741, 43741>>,
      <<43756, 43757>>, <<43763, 43764>>, <<43766, 43766>>, <<43867, 43871>>,
      <<43881, 43883>>, <<44005, 44005>>, <<44008, 44008>>, <<44013, 44013>>,
      <<64286, 64286>>, <<64434, 64450>>, <<65024, 65039>>, <<65043, 65043>>,
      <<65056, 65071>>, <<65106, 65106>>, <<65109, 65109>>, <<65279, 65279>>,
      <<65287, 65287>>, <<65294, 65294>>, <<65306, 65306>>, <<65342, 65342>>,
      <<65344, 65344>>, <<65392, 65392>>, <<65438, 65439>>, <<65507, 65507>>,
      <<65529, 65531>>, <<66045, 66045>>, <<66272, 66272>>, <<66422, 66426>>,
      <<67456, 67461>>, <<67463, 67504>>, <<67506, 67514>>, <<68097, 68099>>,
      <<68101, 68102>>, <<68108, 68111>>, <<68152, 68154>>, <<68159, 68159>>,
      <<68325, 68326>>, <<68900, 68903>>, <<69291, 69292>>, <<69446, 69456>>,
      <<69506, 69509>>, <<69633, 69633>>, <<69688, 69702>>, <<69744, 69744>>,
      <<69747, 69748>>, <<69759, 69761>>, <<69811, 69814>>, <<69817, 69818>>,
      <<69821, 69821>>, <<69826, 69826>>, <<69837, 69837>>, <<69888, 69890>>,
      <<69927, 69931>>, <<69933, 69940>>, <<70003, 70003>>, <<70016, 70017>>,
      <<70070, 70078>>, <<70089, 70092>>, <<70095, 70095>>, <<70191, 70193>>,
      <<70196, 70196>>, <<70198, 70199>>, <<70206, 70206>>, <<70367, 70367>>,
      <<70371, 70378>>, <<70400, 70401>>, <<70459, 70460>>, <<70464, 70464>>,
      <<70502, 70508>>, <<70512, 70516>>, <<70712, 70719>>, <<70722, 70724>>,
      <<70726, 70726>>, <<70750, 70750>>, <<70835, 70840>>, <<70842, 70842>>,
      <<70847, 70848>>, <<70850, 70851>>, <<71090, 71093>>, <<71100, 71101>>,
      <<71103, 71104>>, <<71132, 71133>>, <<71219, 71226>>, <<71229, 71229>>,
      <<71231, 71232>>, <<71339, 71339>>, <<71341, 71341>>, <<71344, 71349>>,
      <<71351, 71351>>, <<71453, 71455>>, <<71458, 71461>>, <<71463, 71467>>,
      <<71727, 71735>>, <<71737, 71738>>, <<71995, 71996>>, <<71998, 71998>>,
      <<72003, 72003>>, <<72148, 72151>>, <<72154, 72155>>, <<72160, 72160>>,
      <<72193, 72202>>, <<72243, 72248>>, <<72251, 72254>>, <<72263, 72263>>,
      <<72273, 72278>>, <<72281, 72283>>, <<72330, 72342>>, <<72344, 72345>>,
      <<72752, 72758>>, <<72760, 72765>>, <<72767, 72767>>, <<72850, 72871>>,
      <<72874, 72880>>, <<72882, 72883>>, <<72885, 72886>>, <<73009, 73014>>,
      <<73018, 73018>>, <<73020, 73021>>, <<73023, 73029>>, <<73031, 73031>>,
      <<73104, 73105>>, <<73109, 73109>>, <<73111, 73111>>, <<73459, 73460>>,
      <<78896, 78904>>, <<92912, 92916>>, <<92976, 92982>>, <<92992, 92995>>,
      <<94031, 94031>>, <<94095, 94111>>, <<94176, 94177>>, <<94179, 94180>>,
      <<110576, 110579>>, <<110581, 110587>>, <<110589, 110590>>,
      <<113821, 113822>>, <<113824, 113827>>, <<118528, 118573>>,
      <<118576, 118598>>, <<119143, 119145>>, <<119155, 119170>>,
      <<119173, 119179>>, <<119210, 119213>>, <<119362, 119364>>,
      <<121344, 121398>>, <<121403, 121452>>, <<121461, 121461>>,
      <<121476, 121476>>, <<121499, 121503>>, <<121505, 121519>>,
      <<122880, 122886>>, <<122888, 122904>>, <<122907, 122913>>,
      <<122915, 122916>>, <<122918, 122922>>, <<123184, 123197>>,
      <<123566, 123566>>, <<123628, 123631>>, <<125136, 125142>>,
      <<125252, 125259>>, <<127995, 127999>>, <<917505, 917505>>,
      <<917536, 917631>>, <<917760, 917999>>}

\* the cased characters that are not case-ignorable, in ranges <<first, last>>
CASED ==
    {<<65, 90>>, <<97, 122>>, <<170, 170>>, <<181, 181>>, <<186, 186>>,
      <<192, 214>>, <<216, 246>>, <<248, 442>>, <<444, 447>>, <<452, 659>>,
      <<661, 687>>, <<880, 883>>, <<886, 887>>, <<891, 893>>, <<895, 895>>,
      <<902, 902>>, <<904, 906>>, <<908, 908>>, <<910, 929>>, <<931, 1013>>,
      <<1015, 1153>>, <<1162, 1327>>, <<1329, 1366>>, <<1376, 1416>>,
      <<4256, 4293>>, <<4295, 4295>>, <<4301, 4301>>, <<4304, 4346>>,
      <<4349, 4351>>, <<5024, 5109>>, <<5112, 5117>>, <<7296, 7304>>,
      <<7312, 7354>>, <<7357, 7359>>, <<7424, 7467>>, <<7531, 7543>>,
      <<7545, 7578>>, <<7680, 7957>>, <<7960, 7965>>, <<7968, 8005>>,
      <<8008, 8013>>, <<8016, 8023>>, <<8025, 8025>>, <<8027, 8027>>,
      <<8029, 8029>>, <<8031, 8061>>, <<8064, 8116>>, <<8118, 8124>>,
      <<8126, 8126>>, <<8130, 8132>>, <<8134, 8140>>, <<8144, 8147>>,
      <<8150, 8155>>, <<8160, 8172>>, <<8178, 8180>>, <<8182, 8188>>,
      <<8450, 8450>>, <<8455, 8455>>, <<8458, 8467>>, <<8469, 8469>>,
      <<8473, 8477>>, <<8484, 8484>>, <<8486, 8486>>, <<8488, 8488>>,
      <<8490, 8493>>, <<8495, 8500>>, <<8505, 8505>>, <<8508, 8511>>,
      <<8517, 8521>>, <<8526, 8526>>, <<8544, 8575>>, <<8579, 8580>>,
      <<9398, 9449>>, <<11264, 11387>>, <<11390, 11492>>, <<11499, 11502>>,
      <<11506, 11507>>, <<11520, 11557>>, <<11559, 11559>>, <<11565, 11565>>,
      <<42560, 42605>>, <<42624, 42651>>, <<42786, 42863>>, <<42865, 42887>>,
      <<42891, 42894>>, <<42896, 42954>>, <<42960, 42961>>, <<42963, 42963>>,
      <<42965, 42969>>, <<42997, 42998>>, <<43002, 43002>>, <<43824, 43866>>,
      <<43872, 43880>>, <<43888, 43967>>, <<64256, 64262>>, <<64275, 64279>>,
      <<65313, 65338>>, <<65345, 65370>>, <<66560, 66639>>, <<66736, 66771>>,
      <<66776, 66811>>, <<66928, 66938>>, <<66940, 66954>>, <<66956, 66962>>,
      <<66964, 66965>>, <<66967, 66977>>, <<66979, 66993>>, <<66995, 67001>>,
      <<67003, 67004>>, <<68736, 68786>>, <<68800, 68850>>, <<71840, 71903>>,
      <<93760, 93823>>, <<119808, 119892>>, <<119894, 119964>>,
      <<119966, 119967>>, <<119970, 119970>>, <<119973, 119974>>,
      <<119977, 119980>>, <<119982, 119993>>, <<119995, 119995>>,
      <<119997, 120003>>, <<120005, 120069>>, <<120071, 120074>>,
      <<120077, 120084>>, <<120086, 120092>>, <<120094, 120121>>,
      <<120123, 120126>>, <<120128, 120132>>, <<120134, 120134>>,
      <<120138, 120144>>, <<120146, 120485>>, <<120488, 120512>>,
      <<120514, 120538>>, <<120540, 120570>>, <<120572, 120596>>,
      <<120598, 120628>>, <<120630, 120654>>, <<120656, 120686>>,
      <<120688, 120712>>, <<120714, 120744>>, <<120746, 120770>>,
      <<120772, 120779>>, <<122624, 122633>>, <<122635, 122654>>,
      <<125184, 125251>>, <<127280, 127305>>, <<127312, 127337>>,
      <<127344, 127369>>}

InRanges(c, ranges) == \E r \in ranges : r[1] <= c /\ c <= r[2]

\* the capital sigma at position i ends a word: a cased character comes
\* before it and none after it, case-ignorable characters aside (before and
\* after are the positions of the others)
EndsWord(cps, before, after, cased) ==
    /\ before # {}
    /\ InRanges(cps[Greatest(before)], cased)
    /\ after = {} \/ ~InRanges(cps[Least(after)], cased)

FinalSigmaIn(cps, i, ignorable, cased) ==
    EndsWord(cps, {j \in 1..(i - 1) : ~InRanges(cps[j], ignorable)},
             {j \in (i + 1)..Len(cps) : ~InRanges(cps[j], ignorable)}, cased)

FinalSigma(cps, i) == FinalSigmaIn(cps, i, CASE_IGNORABLE, CASED)

\* the range r holds the lowercase mapping of c
MapsLower(r, c) == r[1] <= c /\ c <= r[2] /\ (c - r[1]) % r[4] = 0

\* the lowercase of the character c at position i, ranges being the
\* lowercase mappings
LowerCharIn(cps, i, c, ranges) ==
    IF c < 128 THEN <<IF 65 <= c /\ c <= 90 THEN c + 32 ELSE c>>
    ELSE IF c = 304 THEN <<105, 775>>
    ELSE IF c = 931 THEN <<IF FinalSigma(cps, i) THEN 962 ELSE 963>>
    ELSE IF \E r \in ranges : MapsLower(r, c)
    THEN <<c + (CHOOSE r \in ranges : MapsLower(r, c))[3]>>
    ELSE <<c>>

\* the lowercase of the character at position i
LowerChar(cps, i) == LowerCharIn(cps, i, cps[i], LOWER_RANGES)

\* the lowercase of the characters
LowerPoints(cps) == Flatten([i \in 1..Len(cps) |-> LowerChar(cps, i)])

\* str.lower()
Lower(s) == Utf8(LowerPoints(CodePoints(s)))

-----------------------------------------------------------------------------
(* Python values: int, str, datetime, None *)

PyInt(n) == [kind |-> "int", v |-> n]
PyStr(s) == [kind |-> "str", v |-> s]
PyDatetime(t) == [kind |-> "datetime", v |-> t]
PyNone == [kind |-> "none", v |-> 0]

\* False and True, held as 0 and 1
PyBool(b) == [kind |-> "bool", v |-> IF b THEN 1 ELSE 0]

-----------------------------------------------------------------------------
(* datetime: a value is its fields; tzinfo is <<>> for a naive datetime and
   <<[seconds, microseconds]>>, the offset from UTC, for an aware one *)

DAYS_IN_MONTH == <<31, 28, 31, 30, 31, 30, 31, 31, 30, 31, 30, 31>>

DAYS_BEFORE_MONTH == <<0, 31, 59, 90, 120, 151, 181, 212, 243, 273, 304, 334>>

is_leap(year) == year % 4 = 0 /\ (year % 100 # 0 \/ year % 400 = 0)

days_in_month(year, month) ==
    IF month = 2 /\ is_leap(year) THEN 29 ELSE DAYS_IN_MONTH[month]

days_before_year(year) ==
    LET y == year - 1
    IN  (y * 365) + (y \div 4) - (y \div 100) + (y \div 400)

\* the days of a year before a month
days_before_month(year, month) ==
    DAYS_BEFORE_MONTH[month] + (IF month > 2 /\ is_leap(year) THEN 1 ELSE 0)

\* the ordinal of a day: 0001-01-01 is day 1
ymd_to_ord(year, month, day) ==
    days_before_year(year) + days_before_month(year, month) + day

\* the month of the day n (from 0) of a year
MonthOfDay(year, n) ==
    CHOOSE m \in 1..12 :
        /\ days_before_month(year, m) <= n
        /\ n < days_before_month(year, m) + days_in_month(year, m)

YearMonthDay(year, n, month) ==
    [year |-> year, month |-> month,
     day |-> n - days_before_month(year, month) + 1]

\* the date r4 days into the n4-th cycle of 4 years of the n100-th century of
\* the n400-th cycle of 400 years
DateInCycle(n400, n100, n4, r4) ==
    IF r4 \div 365 = 4 \/ n100 = 4
    THEN [year |-> (n400 * 400) + (n100 * 100) + (n4 * 4) + (r4 \div 365),
          month |-> 12, day |-> 31]
    ELSE YearMonthDay((n400 * 400) + 1 + (n100 * 100) + (n4 * 4) + (r4 \div 365),
                      r4 % 365,
                      MonthOfDay((n400 * 400) + 1 + (n100 * 100) + (n4 * 4)
                                    + (r4 \div 365), r4 % 365))

DateInCentury(n400, n100, r100) ==
    DateInCycle(n400, n100, r100 \div 1461, r100 % 1461)

DateIn400(n400, r400) == DateInCentury(n400, r400 \div 36524, r400 % 36524)

\* the year, month and day of an ordinal
ord_to_ymd(ordinal) ==
    DateIn400((ordinal - 1) \div 146097, (ordinal - 1) % 146097)

\* 0 is Monday
weekday(year, month, day) == (ymd_to_ord(year, month, day) + 6) % 7

\* the Monday of week 1 of a year whose first day is first_day
Week1Monday(first_day, first_weekday) ==
    IF first_weekday > 3 THEN first_day - first_weekday + 7
    ELSE first_day - first_weekday

iso_week1_monday(year) ==
    Week1Monday(ymd_to_ord(year, 1, 1), (ymd_to_ord(year, 1, 1) + 6) % 7)

NaiveTz == <<>>
UtcTz == <<[seconds |-> 0, microseconds |-> 0]>>

Datetime(year, month, day, hour, minute, second, microsecond, tzinfo) ==
    [year |-> year, month |-> month, day |-> day, hour |-> hour,
     minute |-> minute, second |-> second, microsecond |-> microsecond,
     tzinfo |-> tzinfo]

\* the digits d in at least width digits
ZeroFilled(d, width) == [i \in 1..(width - Len(d)) |-> "0"] \o d

\* str(n) in at least width digits
Padded(n, width) == ZeroFilled(Decimal(n), width)

Abs(n) == IF n < 0 THEN 0 - n ELSE n

\* the UTC offset as +HH:MM[:SS[.ffffff]]
format_offset(tzinfo) ==
    IF tzinfo = <<>> THEN <<>>
    ELSE LET off == tzinfo[1]
             secs == Abs(off.seconds)
             us == Abs(off.microseconds)
         IN  <<IF off.seconds < 0 \/ off.microseconds < 0 THEN "-" ELSE "+">>
                \o Padded(secs \div 3600, 2) \o <<":">>
                \o Padded((secs % 3600) \div 60, 2)
                \o (IF secs % 60 # 0 \/ us # 0
                    THEN <<":">> \o Padded(secs % 60, 2)
                    ELSE <<>>)
                \o (IF us # 0 THEN <<".">> \o Padded(us, 6) ELSE <<>>)

\* the date, sep, the time of day with its microseconds if there are any,
\* and the UTC offset of an aware datetime
format_datetime(dt, sep) ==
    Padded(dt.year, 4) \o <<"-">> \o Padded(dt.month, 2) \o <<"-">>
        \o Padded(dt.day, 2) \o <<sep>>
        \o Padded(dt.hour, 2) \o <<":">> \o Padded(dt.minute, 2) \o <<":">>
        \o Padded(dt.second, 2)
        \o (IF dt.microsecond # 0
            THEN <<".">> \o Padded(dt.microsecond, 6)
            ELSE <<>>)
        \o format_offset(dt.tzinfo)

\* datetime.isoformat()
isoformat(dt) == format_datetime(dt, "T")

\* str(datetime)
str_datetime(dt) == format_datetime(dt, " ")

\* the byte at a position of a text that ends with a NUL
At(s, i) == IF i >= 1 /\ i <= Len(s) THEN s[i] ELSE "x00"

\* parse_digits: the number in the n bytes from position p, -1 if one of
\* them is no digit
Digits(s, p, n) ==
    IF \E i \in p..(p + n - 1) : ~IsDigit(At(s, i)) THEN -1
    ELSE IF n = 0 THEN 0
    ELSE DecimalValue(SubSeq(s, p, p + n - 1))

\* the position after the date of a text of len bytes, counted in bytes
\* from 0, first_other being the first position from 7 on that holds no
\* digit (len if there is none)
SeparatorAt(s, len, first_other) ==
    IF len = 7 THEN 7
    ELSE IF At(s, 5) = "-"
    THEN IF At(s, 6) = "W"
         THEN IF len > 8 /\ At(s, 9) = "-"
              THEN IF len = 9 THEN -1
                   ELSE IF len > 10 /\ IsDigit(At(s, 11)) THEN 8
                   ELSE 10
              ELSE 8
         ELSE 10
    ELSE IF At(s, 5) = "W"
    THEN IF first_other < 9 THEN first_other
         ELSE IF first_other % 2 = 0 THEN 7
         ELSE 8
    ELSE 8

\* the position after the date, counted in bytes from 0; the text has at
\* least 7 bytes
_find_isoformat_datetime_separator(s) ==
    SeparatorAt(s, Len(s),
                Least({i \in 7..Len(s) : i = Len(s) \/ ~IsDigit(At(s, i + 1))}))

ParseFails == [ok |-> FALSE]

\* the date of an ISO year, week and day, ordinal being the day and
\* first_weekday the weekday of the first day of the year
IsoDate(iso_year, iso_week, iso_day, first_weekday, ordinal) ==
    IF \/ iso_year < 1
       \/ ~(\/ iso_week > 0 /\ iso_week < 53
            \/ /\ iso_week = 53
               /\ first_weekday = 3 \/ (first_weekday = 2 /\ is_leap(iso_year)))
       \/ iso_day <= 0 \/ iso_day >= 8 \/ ordinal < 1
    THEN ParseFails
    ELSE [ok |-> TRUE] @@ ord_to_ymd(ordinal)

\* the date of an ISO year, week and day
iso_to_ymd(iso_year, iso_week, iso_day) ==
    IsoDate(iso_year, iso_week, iso_day, weekday(iso_year, 1, 1),
            iso_week1_monday(iso_year) + ((iso_week - 1) * 7) + iso_day - 1)

\* YYYY-Www[-D] or YYYYWww[D], the week read from position p + 1
WeekDate(s, year, uses_separator, has_day, p, iso_week, iso_day) ==
    IF iso_week < 0 THEN ParseFails
    ELSE IF has_day /\ uses_separator /\ At(s, p + 3) # "-" THEN ParseFails
    ELSE IF iso_day < 0 THEN ParseFails
    ELSE iso_to_ymd(year, iso_week, iso_day)

\* YYYY-MM-DD or YYYYMMDD, the month read from position p
MonthDate(s, year, uses_separator, p, month, day) ==
    IF month < 0 THEN ParseFails
    ELSE IF uses_separator /\ At(s, p + 2) # "-" THEN ParseFails
    ELSE IF day < 0 THEN ParseFails
    ELSE [ok |-> TRUE, year |-> year, month |-> month, day |-> day]

\* the date after the year
DateAfterYear(s, len, year, uses_separator, p) ==
    IF year < 0 THEN ParseFails
    ELSE IF At(s, p) = "W"
    THEN WeekDate(s, year, uses_separator, p + 2 < len, p, Digits(s, p + 1, 2),
                  IF p + 2 < len
                  THEN Digits(s, IF uses_separator THEN p + 4 ELSE p + 3, 1)
                  ELSE 1)
    ELSE MonthDate(s, year, uses_separator, p, Digits(s, p, 2),
                   Digits(s, IF uses_separator THEN p + 3 ELSE p + 2, 2))

\* the date in the first len bytes: YYYY-MM-DD, YYYYMMDD, YYYY-Www[-D] or
\* YYYYWww[D]
parse_isoformat_date(s, len) ==
    DateAfterYear(s, len, Digits(s, 1, 4), At(s, 5) = "-",
                  IF At(s, 5) = "-" THEN 6 ELSE 5)

FRACTION_CORRECTION == <<100000, 10000, 1000, 100, 10>>

\* the fraction read as to_parse digits, stop being the position of the
\* first byte after them that is no digit
Fraction(s, vals, to_parse, digits, stop) ==
    IF digits < 0 THEN [rv |-> -3]
    ELSE [rv |-> IF At(s, stop) # "x00" THEN 1 ELSE 0, vals |-> vals,
          microsecond |-> IF to_parse = 0 THEN 0
                          ELSE IF to_parse < 6
                          THEN digits * FRACTION_CORRECTION[to_parse]
                          ELSE digits]

FractionOf(s, p, vals, to_parse) ==
    Fraction(s, vals, to_parse, Digits(s, p, to_parse),
             Least({i \in (p + to_parse)..(Len(s) + 1) : ~IsDigit(At(s, i))}))

\* the fraction of a second read from position p of the part that ends
\* before position end; digits after the sixth are skipped
ParseFraction(s, end, p, vals) ==
    FractionOf(s, p, vals, IF end - p >= 6 THEN 6 ELSE end - p)

\* HH[:MM[:SS[.fff[fff]]]] or HH[MM[SS[.fff[fff]]]] read from position p
\* of the part that ends before position end; i components are read already.
\* rv is 0 when the text ends with the part, 1 when more follows, negative
\* when the part is malformed
RECURSIVE parse_hh_mm_ss_ff(_, _, _, _, _, _)

\* component i read as v, c the byte after it, p1 the position after that
\* and vals1 the components with this one
Component(s, end, i, p1, sep, v, c, vals1) ==
    IF v < 0 THEN [rv |-> -3]
    ELSE IF p1 >= end
    THEN [rv |-> IF c # "x00" THEN 1 ELSE 0, vals |-> vals1,
          microsecond |-> 0]
    ELSE IF sep /\ c = ":"
    THEN IF i = 2 THEN ParseFraction(s, end, p1, vals1)
         ELSE parse_hh_mm_ss_ff(s, end, i + 1, p1, sep, vals1)
    ELSE IF c \in {".", ","} THEN ParseFraction(s, end, p1, vals1)
    ELSE IF ~sep
    THEN IF i = 2 THEN ParseFraction(s, end, p1 - 1, vals1)
         ELSE parse_hh_mm_ss_ff(s, end, i + 1, p1 - 1, sep, vals1)
    ELSE [rv |-> -4]

ComponentOf(s, end, i, p, has_separator, vals, v) ==
    Component(s, end, i, p + 3,
              IF i = 0 THEN At(s, p + 2) = ":" ELSE has_separator, v,
              At(s, p + 2), [vals EXCEPT ![i + 1] = v])

parse_hh_mm_ss_ff(s, end, i, p, has_separator, vals) ==
    ComponentOf(s, end, i, p, has_separator, vals, Digits(s, p, 2))

\* the time of day and the UTC offset read from position start
TimeOfDay(time, tzinfo) ==
    [ok |-> TRUE, hour |-> time.vals[1], minute |-> time.vals[2],
     second |-> time.vals[3], microsecond |-> time.microsecond,
     tzinfo |-> tzinfo]

OffsetSeconds(tz) == (tz.vals[1] * 3600) + (tz.vals[2] * 60) + tz.vals[3]

\* the time of day read as time and the UTC offset read as tz, the offset
\* starting at tzinfo_pos with the sign tzsign
TimeAndOffset(s, p_end, tzinfo_pos, time, tz, tzsign) ==
    IF time.rv < 0 THEN ParseFails
    ELSE IF tzinfo_pos >= p_end
    THEN IF time.rv = 1 THEN ParseFails ELSE TimeOfDay(time, NaiveTz)
    ELSE IF At(s, tzinfo_pos) = "Z"
    THEN IF At(s, tzinfo_pos + 1) # "x00" THEN ParseFails
         ELSE TimeOfDay(time, UtcTz)
    ELSE IF tz.rv # 0 THEN ParseFails
    ELSE IF OffsetSeconds(tz) = 0 THEN TimeOfDay(time, UtcTz)
    ELSE TimeOfDay(time, <<[seconds |-> tzsign * OffsetSeconds(tz),
                            microseconds |-> tzsign * tz.microsecond]>>)

TimeBefore(s, start, p_end, tzinfo_pos) ==
    TimeAndOffset(s, p_end, tzinfo_pos,
                  parse_hh_mm_ss_ff(s, tzinfo_pos, 0, start, TRUE, <<0, 0, 0>>),
                  parse_hh_mm_ss_ff(s, p_end, 0, tzinfo_pos + 1, TRUE,
                                    <<0, 0, 0>>),
                  IF At(s, tzinfo_pos) = "-" THEN -1 ELSE 1)

\* the position of the UTC offset, marks being the positions of Z, + and -
TzinfoPos(start, p_end, marks) ==
    IF marks # {} THEN Least(marks)
    ELSE IF start + 1 > p_end THEN start + 1
    ELSE p_end

\* the time of day and the UTC offset read from position start
parse_isoformat_time(s, start) ==
    TimeBefore(s, start, Len(s) + 1,
               TzinfoPos(start, Len(s) + 1,
                         {i \in start..Len(s) : s[i] \in {"Z", "+", "-"}}))

\* the datetime of a date and a time of day
DatetimeOf(date, time) ==
    IF ~date.ok THEN ParseFails
    ELSE IF ~time.ok THEN ParseFails
    ELSE IF \/ date.year < 1 \/ date.year > 9999
            \/ date.month < 1 \/ date.month > 12
            \/ date.day < 1 \/ date.day > days_in_month(date.year, date.month)
            \/ time.hour > 23 \/ time.minute > 59 \/ time.second > 59
            \/ time.tzinfo # <<>> /\ Abs(time.tzinfo[1].seconds) >= 86400
    THEN ParseFails
    ELSE [ok |-> TRUE,
          v |-> Datetime(date.year, date.month, date.day, time.hour,
                         time.minute, time.second, time.microsecond,
                         time.tzinfo)]

\* the bytes of the character that separates the date from the time, n
\* being its first byte
SeparatorWidth(n) ==
    IF n < 128 THEN 1
    ELSE IF n \div 16 = 14 THEN 3
    ELSE IF n \div 16 = 15 THEN 4
    ELSE 2

ParseAround(s, separator_location) ==
    DatetimeOf(parse_isoformat_date(s, separator_location),
               IF Len(s) > separator_location
               THEN parse_isoformat_time(s,
                        separator_location + 1
                            + SeparatorWidth(Ord(At(s, separator_location + 1))))
               ELSE [ok |-> TRUE, hour |-> 0, minute |-> 0, second |-> 0,
                     microsecond |-> 0, tzinfo |-> NaiveTz])

\* datetime.fromisoformat(s): [ok |-> FALSE] for ValueError, or the datetime
ParseIsoFormat(s) ==
    IF Len(s) < 7 THEN ParseFails
    ELSE ParseAround(s, _find_isoformat_datetime_separator(s))

\* datetime.fromisoformat(s) returns a datetime
IsIsoFormat(s) == ParseIsoFormat(s).ok

\* datetime.fromisoformat(s), for a text it accepts
fromisoformat(s) == ParseIsoFormat(s).v

-----------------------------------------------------------------------------
(* hashlib.md5: a 32-bit word is <<high, low>>, its two 16-bit halves *)

RECURSIVE BitAnd(_, _)
BitAnd(a, b) ==
    IF a = 0 \/ b = 0 THEN 0
    ELSE ((a % 2) * (b % 2)) + (2 * BitAnd(a \div 2, b \div 2))

BitXor(a, b) == a + b - (2 * BitAnd(a, b))

WordAnd(x, y) == <<BitAnd(x[1], y[1]), BitAnd(x[2], y[2])>>
WordOr(x, y) ==
    <<x[1] + y[1] - BitAnd(x[1], y[1]), x[2] + y[2] - BitAnd(x[2], y[2])>>
WordXor(x, y) == <<BitXor(x[1], y[1]), BitXor(x[2], y[2])>>
WordNot(x) == <<65535 - x[1], 65535 - x[2]>>

\* x + y modulo 2^32
WordAdd(x, y) ==
    LET low == x[2] + y[2]
    IN  <<(x[1] + y[1] + (low \div 65536)) % 65536, low % 65536>>

RECURSIVE Pow2(_)
Pow2(n) == IF n = 0 THEN 1 ELSE 2 * Pow2(n - 1)

\* y rotated left by k < 16 bits
Rotl16(y, k) ==
    <<((y[1] * Pow2(k)) % 65536) + (y[2] \div Pow2(16 - k)),
      ((y[2] * Pow2(k)) % 65536) + (y[1] \div Pow2(16 - k))>>

\* x rotated left by n bits
WordRotl(x, n) == Rotl16(IF n >= 16 THEN <<x[2], x[1]>> ELSE x, n % 16)

\* floor(abs(sin(i)) * 2^32) for i in 1..64
MD5_K ==
    <<
      <<55146, 42104>>, <<59591, 46934>>, <<9248, 28891>>, <<49597, 52974>>,
      <<62844, 4015>>, <<18311, 50730>>, <<43056, 17939>>, <<64838, 38145>>,
      <<27008, 39128>>, <<35652, 63407>>, <<65535, 23473>>, <<35164, 55230>>,
      <<27536, 4386>>, <<64920, 29075>>, <<42617, 17294>>, <<18868, 2081>>,
      <<63006, 9570>>, <<49216, 45888>>, <<9822, 23121>>, <<59830, 51114>>,
      <<54831, 4189>>, <<580, 5203>>, <<55457, 59009>>, <<59347, 64456>>,
      <<8673, 52710>>, <<49975, 2006>>, <<62677, 3463>>, <<17754, 5357>>,
      <<43491, 59653>>, <<64751, 41976>>, <<26479, 729>>, <<36138, 19594>>,
      <<65530, 14658>>, <<34673, 63105>>, <<28061, 24866>>, <<64997, 14348>>,
      <<42174, 59972>>, <<19422, 53161>>, <<63163, 19296>>, <<48831, 48240>>,
      <<10395, 32454>>, <<60065, 10234>>, <<54511, 12421>>, <<1160, 7429>>,
      <<55764, 53305>>, <<59099, 39397>>, <<8098, 31992>>, <<50348, 22117>>,
      <<62505, 8772>>, <<17194, 65431>>, <<43924, 9127>>, <<64659, 41017>>,
      <<25947, 22979>>, <<36620, 52370>>, <<65519, 62589>>, <<34180, 24017>>,
      <<28584, 32335>>, <<65068, 59104>>, <<41729, 17172>>, <<19976, 4513>>,
      <<63315, 32386>>, <<48442, 62005>>, <<10967, 53947>>, <<60294, 54161>>
    >>

\* the shift of each of the 64 steps
MD5_S ==
    <<
      7, 12, 17, 22, 7, 12, 17, 22, 7, 12, 17, 22, 7, 12, 17, 22, 5, 9, 14,
      20, 5, 9, 14, 20, 5, 9, 14, 20, 5, 9, 14, 20, 4, 11, 16, 23, 4, 11, 16,
      23, 4, 11, 16, 23, 4, 11, 16, 23, 6, 10, 15, 21, 6, 10, 15, 21, 6, 10,
      15, 21, 6, 10, 15, 21
    >>

MD5_INIT == <<<<26437, 8961>>, <<61389, 43913>>, <<39098, 56574>>, <<4146, 21622>>>>

\* the message, the byte 0x80, zeros up to 56 modulo 64, and the length in
\* bits as 8 bytes, least significant first
Md5Padded(bytes) ==
    LET n == Len(bytes)
        zeros == (119 - (n % 64)) % 64
        bits == n * 8
    IN  bytes \o <<128>> \o [i \in 1..zeros |-> 0]
            \o <<bits % 256, (bits \div 256) % 256, (bits \div 65536) % 256,
                 bits \div 16777216, 0, 0, 0, 0>>

\* word g (from 0) of the block that starts after offset bytes
Md5Word(padded, offset, g) ==
    LET p == offset + (4 * g)
    IN  <<padded[p + 3] + (256 * padded[p + 4]),
          padded[p + 1] + (256 * padded[p + 2])>>

\* the function of step i on the words b, c and d
Md5F(i, b, c, d) ==
    CASE i < 16 -> WordOr(WordAnd(b, c), WordAnd(WordNot(b), d))
      [] i < 32 -> WordOr(WordAnd(d, b), WordAnd(WordNot(d), c))
      [] i < 48 -> WordXor(b, WordXor(c, d))
      [] OTHER -> WordXor(c, WordOr(b, WordNot(d)))

\* the word of the block that step i reads
Md5G(i) ==
    CASE i < 16 -> i
      [] i < 32 -> ((5 * i) + 1) % 16
      [] i < 48 -> ((3 * i) + 5) % 16
      [] OTHER -> (7 * i) % 16

\* step i (from 0) of a block on the state <<a, b, c, d>>
Md5Step(st, i, padded, offset) ==
    <<st[4],
      WordAdd(st[2],
              WordRotl(WordAdd(WordAdd(st[1], Md5F(i, st[2], st[3], st[4])),
                               WordAdd(MD5_K[i + 1],
                                       Md5Word(padded, offset, Md5G(i)))),
                       MD5_S[i + 1])),
      st[2], st[3]>>

RECURSIVE Md5Steps(_, _, _, _)
Md5Steps(st, i, padded, offset) ==
    IF Len(st) = 4 /\ i < 64
    THEN Md5Steps(Md5Step(st, i, padded, offset), i + 1, padded, offset)
    ELSE st

\* the state st after a block whose steps end in the state out
Md5Sum(st, out) == [k \in 1..4 |-> WordAdd(st[k], out[k])]

RECURSIVE Md5Blocks(_, _, _)
Md5Blocks(st, padded, offset) ==
    IF Len(st) = 4 /\ offset < Len(padded)
    THEN Md5Blocks(Md5Sum(st, Md5Steps(st, 0, padded, offset)), padded,
                   offset + 64)
    ELSE st

HEX_DIGITS ==
    <<"0", "1", "2", "3", "4", "5", "6", "7", "8", "9", "a", "b", "c", "d",
      "e", "f">>

\* two lowercase hexadecimal digits
Hex2(n) == <<HEX_DIGITS[(n \div 16) + 1], HEX_DIGITS[(n % 16) + 1]>>

\* the digest of the state: its four words, each least significant byte
\* first, in hexadecimal
Md5Hex(st) ==
    Flatten([k \in 1..4 |->
        Hex2(st[k][2] % 256) \o Hex2(st[k][2] \div 256)
            \o Hex2(st[k][1] % 256) \o Hex2(st[k][1] \div 256)])

\* hashlib.md5(data).hexdigest(), data a text
md5_hexdigest(data) == Md5Hex(Md5Blocks(MD5_INIT, Md5Padded(Codes(data)), 0))

-----------------------------------------------------------------------------
(* PostgreSQL: the type inet.  A value is its family (4 or 6), its bytes
   and the number of bits of its netmask *)

INET_ERROR == [ok |-> FALSE]

\* position of the first byte from i on that is no digit
RECURSIVE DigitsEnd(_, _)
DigitsEnd(s, i) == IF IsDigit(At(s, i)) THEN DigitsEnd(s, i + 1) ELSE i

\* a digit text without its leading zeros
RECURSIVE StripZeros(_)
StripZeros(d) ==
    IF Len(d) > 1 /\ d[1] = "0" THEN StripZeros(Tail(d)) ELSE d

\* n, or limit + 1 if it is larger than limit
Capped(n, limit) == IF n > limit THEN limit + 1 ELSE n

\* the number of a digit text without leading zeros, capped
CappedDigits(t, limit) ==
    IF Len(t) > 9 THEN limit + 1 ELSE Capped(DecimalValue(t), limit)

\* the number of a digit text, or limit + 1 if it is larger than limit
\* (limit has at most 9 digits)
CappedValue(d, limit) == CappedDigits(StripZeros(d), limit)

\* the number of a digit text as an int of 32 bits that wraps around:
\* <<high, low>>, its two 16-bit halves
RECURSIVE WrappedValue(_, _)

\* acc with the low half low before it is cut to 16 bits
Carried(acc, low) ==
    <<((acc[1] * 10) + (low \div 65536)) % 65536, low % 65536>>

WrappedValue(d, acc) ==
    IF Len(d) = 0 THEN acc
    ELSE WrappedValue(Tail(d), Carried(acc, (acc[2] * 10) + DigitValue(d[1])))

\* the octets of inet_net_pton_ipv4 from position i, and the byte that
\* ends them with its position
RECURSIVE Pton4Mantissa(_, _, _)

\* the octet tmp read up to position j, where the byte ch is
Pton4Octet(s, octets, j, tmp, ch) ==
    IF tmp > 255 THEN INET_ERROR
    ELSE IF Len(octets) = 4 THEN INET_ERROR
    ELSE IF ch = "x00" \/ ch = "/"
    THEN [ok |-> TRUE, octets |-> Append(octets, tmp), ch |-> ch, at |-> j]
    ELSE IF ch # "." THEN INET_ERROR
    ELSE Pton4Mantissa(s, j + 1, Append(octets, tmp))

Pton4From(s, i, octets, j) ==
    Pton4Octet(s, octets, j, CappedValue(SubSeq(s, i, j - 1), 255), At(s, j))

Pton4Mantissa(s, i, octets) ==
    IF ~IsDigit(At(s, i))
    THEN [ok |-> TRUE, octets |-> octets, ch |-> At(s, i), at |-> i]
    ELSE Pton4From(s, i, octets, DigitsEnd(s, i))

\* the address of the octets m with the prefix length bits
Pton4Address(m, bits) ==
    IF bits = -1 THEN INET_ERROR
    ELSE IF Len(m.octets) = 0 THEN INET_ERROR
    ELSE IF (bits \div 8) > Len(m.octets) THEN INET_ERROR
    ELSE [ok |-> TRUE,
          v |-> [family |-> 4, bits |-> bits,
                 addr |-> [n \in 1..4 |->
                             IF n <= Len(m.octets) THEN m.octets[n] ELSE 0]]]

\* the prefix length wrapped, read up to position k
Pton4Bits(s, m, has_bits, k, wrapped) ==
    IF ~m.ok THEN INET_ERROR
    ELSE IF has_bits /\ At(s, k) # "x00" THEN INET_ERROR
    ELSE IF has_bits /\ (wrapped[1] # 0 \/ wrapped[2] > 32) THEN INET_ERROR
    ELSE IF ~has_bits /\ m.ch # "x00" THEN INET_ERROR
    ELSE Pton4Address(m, IF has_bits THEN wrapped[2]
                         ELSE IF Len(m.octets) = 4 THEN 32
                         ELSE -1)

Pton4After(s, m, k) ==
    Pton4Bits(s, m,
              m.ch = "/" /\ IsDigit(At(s, m.at + 1)) /\ Len(m.octets) > 0, k,
              WrappedValue(SubSeq(s, m.at + 1, k - 1), <<0, 0>>))

Pton4Of(s, m) == Pton4After(s, m, DigitsEnd(s, m.at + 1))

\* inet_net_pton_ipv4: dotted decimal octets, fewer than four with a prefix
\* length that they cover
inet_net_pton_ipv4(s) == Pton4Of(s, Pton4Mantissa(s, 1, <<>>))

\* the prefix length in the digits d from position i up to position j
BitsOf(s, i, j, d) ==
    IF j = i \/ At(s, j) # "x00" THEN -1
    ELSE IF Len(d) > 1 /\ d[1] = "0" THEN -1
    ELSE IF CappedDigits(d, 128) > 128 THEN -1
    ELSE CappedDigits(d, 128)

BitsUpTo(s, i, j) == BitsOf(s, i, j, SubSeq(s, i, j - 1))

\* getbits: a prefix length up to 128 without leading zeros, to the end of
\* the text from position i; -1 if there is none
getbits(s, i) == BitsUpTo(s, i, DigitsEnd(s, i))

\* getv4: octets without leading zeros from position i, up to four of them,
\* with the prefix length that follows a "/"
RECURSIVE getv4(_, _, _)

\* the octets that end with a prefix length
V4WithBits(octets, bits) ==
    IF bits = -1 THEN INET_ERROR
    ELSE [ok |-> TRUE, octets |-> octets, bits |-> bits]

\* the octet val in the digits d from position i up to position j, where
\* the byte ch is
V4Octet(s, i, octets, j, d, ch, val) ==
    IF Len(d) > 1 /\ d[1] = "0" THEN INET_ERROR
    ELSE IF val > 255 THEN INET_ERROR
    ELSE IF ch = "." \/ ch = "/"
    THEN IF Len(octets) > 3 THEN INET_ERROR
         ELSE IF ch = "/"
         THEN V4WithBits(Append(octets, val), getbits(s, j + 1))
         ELSE getv4(s, j + 1, Append(octets, val))
    ELSE IF ch # "x00" THEN INET_ERROR
    ELSE IF j = i THEN INET_ERROR
    ELSE IF Len(octets) > 3 THEN INET_ERROR
    ELSE [ok |-> TRUE, octets |-> Append(octets, val), bits |-> -1]

V4Digits(s, i, octets, j, d) ==
    V4Octet(s, i, octets, j, d, At(s, j),
            IF j = i THEN 0 ELSE CappedValue(d, 255))

V4UpTo(s, i, octets, j) == V4Digits(s, i, octets, j, SubSeq(s, i, j - 1))

getv4(s, i, octets) == V4UpTo(s, i, octets, DigitsEnd(s, i))

HEX_LOWER == <<"0", "1", "2", "3", "4", "5", "6", "7", "8", "9", "a", "b", "c", "d", "e", "f">>
HEX_UPPER == <<"0", "1", "2", "3", "4", "5", "6", "7", "8", "9", "A", "B", "C", "D", "E", "F">>

\* the hexadecimal digits, those with lowercase letters first
HEX_BOTH ==
    <<"0", "1", "2", "3", "4", "5", "6", "7", "8", "9", "a", "b", "c", "d",
      "e", "f", "0", "1", "2", "3", "4", "5", "6", "7", "8", "9", "A", "B",
      "C", "D", "E", "F">>

IsHexDigit(c) == \E n \in 1..32 : HEX_BOTH[n] = c

HexValue(c) == ((CHOOSE n \in 1..32 : HEX_BOTH[n] = c) - 1) % 16

\* the loop of inet_cidr_pton_ipv6 from position i: tp the bytes written,
\* colonp the number of bytes before "::" (-1 without one), curtok the
\* position of the group being read, val and digits its number so far
RECURSIVE Pton6Loop(_, _, _)

\* the address ends with the dotted decimal octets v4
Pton6V4(st, v4) ==
    IF Len(st.tp) + 4 <= 16 /\ v4.ok
    THEN [st EXCEPT !.ok = TRUE,
                    !.tp = st.tp \o [n \in 1..4 |->
                               IF n <= Len(v4.octets) THEN v4.octets[n]
                               ELSE 0],
                    !.bits = v4.bits, !.saw_xdigit = FALSE]
    ELSE INET_ERROR

\* the address ends with the prefix length bits
Pton6Bits(st, bits) ==
    IF bits # -1 THEN [st EXCEPT !.ok = TRUE, !.bits = bits] ELSE INET_ERROR

\* the byte ch at position i
Pton6Byte(s, i, st, ch) ==
    IF ch = "x00" THEN [st EXCEPT !.ok = TRUE]
    ELSE IF IsHexDigit(ch)
    THEN IF st.digits + 1 > 4 THEN INET_ERROR
         ELSE Pton6Loop(s, i + 1,
                  [st EXCEPT !.val = ((st.val * 16) + HexValue(ch)) % 65536,
                             !.digits = st.digits + 1,
                             !.saw_xdigit = TRUE])
    ELSE IF ch = ":"
    THEN IF ~st.saw_xdigit
         THEN IF st.colonp # -1 THEN INET_ERROR
              ELSE Pton6Loop(s, i + 1,
                       [st EXCEPT !.curtok = i + 1,
                                  !.colonp = Len(st.tp)])
         ELSE IF At(s, i + 1) = "x00" THEN INET_ERROR
         ELSE IF Len(st.tp) + 2 > 16 THEN INET_ERROR
         ELSE Pton6Loop(s, i + 1,
                  [st EXCEPT !.curtok = i + 1,
                             !.tp = st.tp \o <<st.val \div 256, st.val % 256>>,
                             !.saw_xdigit = FALSE, !.digits = 0,
                             !.val = 0])
    ELSE IF ch = "." THEN Pton6V4(st, getv4(s, st.curtok, <<>>))
    ELSE IF ch = "/" THEN Pton6Bits(st, getbits(s, i + 1))
    ELSE INET_ERROR

Pton6Loop(s, i, st) == Pton6Byte(s, i, st, At(s, i))

\* the 16 bytes of the bytes tp written, colonp of them before "::"
Pton6Shifted(tp, colonp) ==
    IF colonp # -1
    THEN [n \in 1..16 |->
            IF n <= colonp THEN tp[n]
            ELSE IF n > 16 - (Len(tp) - colonp) THEN tp[n - (16 - Len(tp))]
            ELSE 0]
    ELSE tp

\* the address of the state st the loop ends in, tp being the bytes
\* written with the last group
Pton6Address(st, tp) ==
    IF st.saw_xdigit /\ Len(st.tp) + 2 > 16 THEN INET_ERROR
    ELSE IF st.colonp # -1 /\ Len(tp) = 16 THEN INET_ERROR
    ELSE IF st.colonp = -1 /\ Len(tp) # 16 THEN INET_ERROR
    ELSE [ok |-> TRUE,
          v |-> [family |-> 6, bits |-> IF st.bits = -1 THEN 128 ELSE st.bits,
                 addr |-> Pton6Shifted(tp, st.colonp)]]

Pton6End(st) ==
    IF ~st.ok THEN INET_ERROR
    ELSE Pton6Address(st, IF st.saw_xdigit
                          THEN st.tp \o <<st.val \div 256, st.val % 256>>
                          ELSE st.tp)

Pton6From(s, start) ==
    Pton6End(Pton6Loop(s, start,
                 [ok |-> FALSE, tp |-> <<>>, colonp |-> -1, curtok |-> start,
                  saw_xdigit |-> FALSE, val |-> 0, digits |-> 0,
                  bits |-> -1]))

\* inet_net_pton_ipv6: groups of hexadecimal digits, "::" once, dotted
\* decimal octets at the end, and a prefix length
inet_net_pton_ipv6(s) ==
    IF At(s, 1) = ":" /\ At(s, 2) # ":" THEN INET_ERROR
    ELSE Pton6From(s, IF At(s, 1) = ":" THEN 2 ELSE 1)

\* network_in for inet: a text with a colon is read as IPv6
network_in(s) ==
    IF \E i \in 1..Len(s) : s[i] = ":"
    THEN inet_net_pton_ipv6(s)
    ELSE inet_net_pton_ipv4(s)

\* the bytes l and r differ at the positions differ, or else lb and rb are
\* the bits of the byte after the first b
BitsCompared(l, r, n, differ, lb, rb) ==
    IF differ # {}
    THEN (IF l[Least(differ)] < r[Least(differ)] THEN -1 ELSE 1)
    ELSE IF n % 8 = 0 \/ lb = rb THEN 0
    ELSE IF lb < rb THEN -1
    ELSE 1

BytesCompared(l, r, n, b, shift) ==
    BitsCompared(l, r, n, {k \in 1..b : l[k] # r[k]},
                 IF b < Len(l) THEN l[b + 1] \div shift ELSE 0,
                 IF b < Len(r) THEN r[b + 1] \div shift ELSE 0)

\* bitncmp: the first n bits of l before those of r (-1), after (1), equal
bitncmp(l, r, n) == BytesCompared(l, r, n, n \div 8, Pow2(8 - (n % 8)))

\* the order of two addresses of one family whose common network bits
\* compare as order
NetworksCompared(a1, a2, order) ==
    IF order # 0 THEN order
    ELSE IF a1.bits # a2.bits THEN a1.bits - a2.bits
    ELSE bitncmp(a1.addr, a2.addr, IF a1.family = 4 THEN 32 ELSE 128)

\* network_cmp: the family, the common network bits, the prefix length,
\* then the whole address
network_cmp(a1, a2) ==
    IF a1.family # a2.family THEN a1.family - a2.family
    ELSE NetworksCompared(a1, a2,
             bitncmp(a1.addr, a2.addr,
                     IF a1.bits < a2.bits THEN a1.bits ELSE a2.bits))

\* inet_net_ntop_ipv4: the four octets, and the prefix length unless it
\* is 32
inet_net_ntop_ipv4(addr, bits) ==
    Decimal(addr[1]) \o <<".">> \o Decimal(addr[2]) \o <<".">>
        \o Decimal(addr[3]) \o <<".">> \o Decimal(addr[4])
        \o (IF bits # 32 THEN <<"/">> \o Decimal(bits) ELSE <<>>)

\* "%x"
RECURSIVE Hex(_)
Hex(n) ==
    IF n < 16 THEN <<HEX_LOWER[n + 1]>>
    ELSE Hex(n \div 16) \o <<HEX_LOWER[(n % 16) + 1]>>

\* the number of zero groups from group b on
ZeroRun(words, b) == Cardinality({k \in b..8 : \A m \in b..k : words[m] = 0})

\* the first of the longest runs of zero groups: its first group, 0 if
\* it has fewer than two groups (longest are the first groups of the
\* longest runs)
BestOf(words, longest) ==
    IF longest = {} THEN 0
    ELSE IF ZeroRun(words, Least(longest)) < 2 THEN 0
    ELSE Least(longest)

BestRun(words, starts) ==
    BestOf(words, {b \in starts :
                     \A c \in starts : ZeroRun(words, c) <= ZeroRun(words, b)})

\* the text of the groups, best being the first group of the "::" and blen
\* the number of its groups
Ntop6Groups(addr, bits, words, best, blen, encapsulated) ==
    Flatten([k \in 1..8 |->
        IF k = 8 /\ encapsulated THEN <<>>
        ELSE IF best # 0 /\ k >= best /\ k < best + blen
        THEN IF k = best THEN <<":">> ELSE <<>>
        ELSE (IF k # 1 THEN <<":">> ELSE <<>>)
                \o (IF k = 7 /\ encapsulated
                    THEN inet_net_ntop_ipv4(SubSeq(addr, 13, 16), 32)
                    ELSE Hex(words[k]))])
        \o (IF best # 0 /\ best + blen = 9 THEN <<":">> ELSE <<>>)
        \o (IF bits # 128 THEN <<"/">> \o Decimal(bits) ELSE <<>>)

Ntop6Run(addr, bits, words, best, blen) ==
    Ntop6Groups(addr, bits, words, best, blen,
                /\ best = 1
                /\ 7 >= best + blen
                /\ \/ blen = 6
                   \/ blen = 7 /\ words[8] # 1
                   \/ blen = 5 /\ words[6] = 65535)

Ntop6Best(addr, bits, words, best) ==
    Ntop6Run(addr, bits, words, best,
             IF best = 0 THEN 0 ELSE ZeroRun(words, best))

Ntop6Words(addr, bits, words) ==
    Ntop6Best(addr, bits, words,
              BestRun(words, {b \in 1..8 :
                                words[b] = 0 /\ (b = 1 \/ words[b - 1] # 0)}))

\* inet_net_ntop_ipv6: the first longest run of two or more zero groups
\* is "::", an address that holds an IPv4 address ends with it in dotted
\* decimal, and the prefix length follows unless it is 128
inet_net_ntop_ipv6(addr, bits) ==
    Ntop6Words(addr, bits,
               [k \in 1..8 |-> (addr[(2 * k) - 1] * 256) + addr[2 * k]])

\* network_out for inet
network_out(a) ==
    IF a.family = 4 THEN inet_net_ntop_ipv4(a.addr, a.bits)
    ELSE inet_net_ntop_ipv6(a.addr, a.bits)

-----------------------------------------------------------------------------
(* PostgreSQL: the values of the columns' types, their literals and their
   comparisons.  Texts compare byte by byte (the collation "C"), and the
   time zone of the session is UTC *)

PgError == [kind |-> "error", v |-> <<>>]

\* the readings of a timestamp literal that the deployment decides on (one
\* with the name of a time zone, with a word whose reading changed between
\* the versions of the server, ...): an error or a point in time
TimestampReadings ==
    {PgError, [kind |-> "timestamp", v |-> <<ymd_to_ord(1970, 1, 1), 0, 0>>],
     [kind |-> "timestamp", v |-> <<ymd_to_ord(2024, 1, 1), 1, 0>>]}

\* the addresses of an object in the text that object.__repr__ gives
ObjectAddresses == {<<"7", "f", "3", "a", "5", "c", "0", "e", "1", "d", "9",
                      "0">>}

\* str(exc.retry_after) of the RateLimitExceeded of slowapi, where the
\* installed version gives the exception this attribute
RetryAfters == {None, Some(<<"6", "0">>)}

\* what a deployment fixes: the reading of such a timestamp literal, the
\* server being PostgreSQL 16 or later (whose integer literals have the
\* prefixes 0x, 0o and 0b and underscores between digits), the char of
\* the build of Redis being signed, the address of an object, and the
\* retry_after of the exception of slowapi
Environments ==
    [timestamp : TimestampReadings, pg16 : BOOLEAN, char_signed : BOOLEAN,
     address : ObjectAddresses, retry_after : RetryAfters]

\* the deployment of the specifications that read no such literal and match
\* no such pattern
PlainEnvironment ==
    [timestamp |-> PgError, pg16 |-> TRUE, char_signed |-> TRUE,
     address |-> <<"7", "f", "3", "a", "5", "c", "0", "e", "1", "d", "9",
                   "0">>,
     retry_after |-> None]

\* isspace() of the C locale
IsCSpace(b) == b \in {"\t", "\n", "x0B", "\f", "\r", " "}

\* the bytes of a text from the first to the last of the positions kept
Kept(s, kept) ==
    IF kept = {} THEN <<>> ELSE SubSeq(s, Least(kept), Greatest(kept))

\* a text without the leading and trailing bytes that isspace() is true of
CTrim(s) == Kept(s, {i \in 1..Len(s) : ~IsCSpace(s[i])})

ASCII_UPPER ==
    <<"A", "B", "C", "D", "E", "F", "G", "H", "I", "J", "K", "L", "M", "N",
      "O", "P", "Q", "R", "S", "T", "U", "V", "W", "X", "Y", "Z">>

ASCII_LOWER ==
    <<"a", "b", "c", "d", "e", "f", "g", "h", "i", "j", "k", "l", "m", "n",
      "o", "p", "q", "r", "s", "t", "u", "v", "w", "x", "y", "z">>

\* b has the lowercase lower[n] for the uppercase upper[n]
LowercaseOf(b, upper, lower) ==
    IF \E n \in 1..26 : upper[n] = b
    THEN lower[CHOOSE n \in 1..26 : upper[n] = b]
    ELSE b
IsAsciiLetter(b) ==
    \E n \in 1..26 : ASCII_UPPER[n] = b \/ ASCII_LOWER[n] = b

\* pg_tolower of every byte
AsciiLower(s) ==
    [i \in 1..Len(s) |-> LowercaseOf(s[i], ASCII_UPPER, ASCII_LOWER)]

\* bytes, given by number, that hold a NUL byte or a surrogate


\* the driver refuses to send the text: it holds a NUL byte, or a surrogate
\* (U+D800..U+DFFF, in bytes ED A0..BF and one more), which has no UTF-8
\* encoding
Unsendable(s) ==
    \E i \in 1..Len(s) :
        \/ s[i] = "x00"
        \/ s[i] = "xED" /\ i < Len(s) /\ Ord(s[i + 1]) >= 160

\* a point in time: <<day, second of the day, microsecond>> in UTC, the
\* day counted from 0001-01-01 as day 1
Instant(day, seconds, microseconds) ==
    <<day + (seconds \div 86400), seconds % 86400, microseconds>>

\* the clock at 0 is 2024-01-01T00:00:00+00:00
ClockInstant(t) == Instant(ymd_to_ord(2024, 1, 1), t, 0)

PgTimestamp(instant) == [kind |-> "timestamp", v |-> instant]

\* the datetime of a date and the time of a point in time
DatetimeOn(date, instant) ==
    Datetime(date.year, date.month, date.day, instant[2] \div 3600,
             (instant[2] % 3600) \div 60, instant[2] % 60, instant[3], UtcTz)

\* the datetime the driver returns for a timestamp with time zone
InstantDatetime(instant) == DatetimeOn(ord_to_ymd(instant[1]), instant)

\* now() at the clock t, as the driver returns it
ClockDatetime(t) == InstantDatetime(ClockInstant(t))

\* the point in time of a datetime: a naive one is taken in the time zone
\* of the session
DatetimeInstant(dt) ==
    Instant(ymd_to_ord(dt.year, dt.month, dt.day),
            (dt.hour * 3600) + (dt.minute * 60) + dt.second
                - (IF dt.tzinfo = <<>> THEN 0 ELSE dt.tzinfo[1].seconds),
            dt.microsecond)

TXT_EPOCH == <<"e", "p", "o", "c", "h">>
TXT_MINUS_INFINITY == <<"-", "i", "n", "f", "i", "n", "i", "t", "y">>
TXT_PLUS_INFINITY == <<"+", "i", "n", "f", "i", "n", "i", "t", "y">>
TXT_INFINITY == <<"i", "n", "f", "i", "n", "i", "t", "y">>
TXT_NOW == <<"n", "o", "w">>
TXT_TODAY == <<"t", "o", "d", "a", "y">>
TXT_TOMORROW == <<"t", "o", "m", "o", "r", "r", "o", "w">>
TXT_YESTERDAY == <<"y", "e", "s", "t", "e", "r", "d", "a", "y">>
TXT_ALLBALLS == <<"a", "l", "l", "b", "a", "l", "l", "s">>

\* the names of the months in datetktbl
MONTH_TOKENS ==
    <<{<<"j", "a", "n">>,
       <<"j", "a", "n", "u", "a", "r", "y">>},
      {<<"f", "e", "b">>,
       <<"f", "e", "b", "r", "u", "a", "r", "y">>},
      {<<"m", "a", "r">>,
       <<"m", "a", "r", "c", "h">>},
      {<<"a", "p", "r">>,
       <<"a", "p", "r", "i", "l">>},
      {<<"m", "a", "y">>},
      {<<"j", "u", "n">>,
       <<"j", "u", "n", "e">>},
      {<<"j", "u", "l">>,
       <<"j", "u", "l", "y">>},
      {<<"a", "u", "g">>,
       <<"a", "u", "g", "u", "s", "t">>},
      {<<"s", "e", "p">>,
       <<"s", "e", "p", "t">>,
       <<"s", "e", "p", "t", "e", "m", "b", "e", "r">>},
      {<<"o", "c", "t">>,
       <<"o", "c", "t", "o", "b", "e", "r">>},
      {<<"n", "o", "v">>,
       <<"n", "o", "v", "e", "m", "b", "e", "r">>},
      {<<"d", "e", "c">>,
       <<"d", "e", "c", "e", "m", "b", "e", "r">>}>>

\* the month a word names in the table months, 0 if it names none
MonthIn(word, months) ==
    IF \E m \in 1..12 : word \in months[m]
    THEN CHOOSE m \in 1..12 : word \in months[m]
    ELSE 0

MonthOf(word) == MonthIn(word, MONTH_TOKENS)

\* the names of the days of the week in datetktbl
DOW_TOKENS ==
    {<<"s", "u", "n">>, <<"s", "u", "n", "d", "a", "y">>, <<"m", "o", "n">>,
     <<"m", "o", "n", "d", "a", "y">>, <<"t", "u", "e">>,
     <<"t", "u", "e", "s">>, <<"t", "u", "e", "s", "d", "a", "y">>,
     <<"w", "e", "d">>, <<"w", "e", "d", "n", "e", "s", "d", "a", "y">>,
     <<"w", "e", "d", "s">>, <<"t", "h", "u">>, <<"t", "h", "u", "r">>,
     <<"t", "h", "u", "r", "s">>, <<"t", "h", "u", "r", "s", "d", "a", "y">>,
     <<"f", "r", "i">>, <<"f", "r", "i", "d", "a", "y">>, <<"s", "a", "t">>,
     <<"s", "a", "t", "u", "r", "d", "a", "y">>}

\* the words of datetktbl whose reading differs between the versions of the
\* server: the prefixes of a number (UNITS) and "dst"
UNIT_TOKENS ==
    {<<"d">>, <<"d", "o", "w">>, <<"d", "o", "y">>, <<"d", "s", "t">>,
     <<"h">>, <<"i", "s", "o", "d", "o", "w">>,
     <<"i", "s", "o", "y", "e", "a", "r">>, <<"j">>, <<"j", "d">>,
     <<"j", "u", "l", "i", "a", "n">>, <<"m">>, <<"m", "m">>, <<"s">>, <<"y">>}

\* "am" and "pm", "ad" and "bc", the words passed over ("at", "on"), and the
\* "t" before a time
MERIDIAN_TOKENS == {<<"a", "m">>, <<"p", "m">>}
ERA_TOKENS == {<<"a", "d">>, <<"b", "c">>}
IGNORED_TOKENS == {<<"a", "t">>, <<"o", "n">>}
DAY_TOKENS == {TXT_TODAY, TXT_TOMORROW, TXT_YESTERDAY}
\* the words for a point in time that is no date; "+infinity" is one from
\* PostgreSQL 16 on
SPECIAL_TOKENS == {TXT_EPOCH, TXT_INFINITY, TXT_MINUS_INFINITY}

\* the words of datetktbl without a sign
DATE_TOKENS ==
    UNION {MONTH_TOKENS[m] : m \in 1..12} \cup DOW_TOKENS \cup UNIT_TOKENS
        \cup MERIDIAN_TOKENS \cup ERA_TOKENS \cup IGNORED_TOKENS
        \cup DAY_TOKENS \cup {TXT_EPOCH, TXT_INFINITY, TXT_NOW, TXT_ALLBALLS,
                              <<"t">>}

\* the abbreviations of the time zone of offset 0 in the set "Default" of
\* timezone_abbreviations
UTC_ABBREVS ==
    {<<"z">>, <<"z", "u", "l", "u">>, <<"u", "t", "c">>, <<"g", "m", "t">>,
     <<"u", "t">>}

\* the classes of bytes of the C locale
DIGIT_BYTES == {DIGITS[k] : k \in 1..10}
ALPHA_BYTES ==
    {ASCII_UPPER[k] : k \in 1..26} \cup {ASCII_LOWER[k] : k \in 1..26}
ALNUM_BYTES == DIGIT_BYTES \cup ALPHA_BYTES
SPACE_BYTES == {BYTES[k] : k \in {j \in 1..256 : IsCSpace(BYTES[j])}}
NOT_ALNUM_BYTES == {BYTES[k] : k \in 1..256} \ ALNUM_BYTES

\* ispunct() of the C locale
IsPunct(b) == Ord(b) \in 33..126 /\ b \notin ALNUM_BYTES

\* the first position from i on whose byte is not of the class
RECURSIVE Span(_, _, _)
Span(s, i, class) ==
    IF i > Len(s) \/ s[i] \notin class THEN i ELSE Span(s, i + 1, class)

\* a field of ParseDateTime: its type, its text, and the position after it
Field(ftype, text, next) == [ftype |-> ftype, text |-> text, next |-> next]

\* the field of the bytes from i up to e - 1, in lowercase
Lexeme(ftype, s, i, e) == Field(ftype, AsciiLower(SubSeq(s, i, e - 1)), e)

\* digits, a delimiter at j and digits up to k - 1: a date if the delimiter
\* comes again, and a number with a fraction if it is a point
NumberDated(s, i, j, k) ==
    IF At(s, k) = s[j]
    THEN Lexeme("date", s, i, Span(s, k + 1, DIGIT_BYTES \cup {s[j]}))
    ELSE Lexeme(IF s[j] = "." THEN "number" ELSE "date", s, i, k)

\* the field that begins with the digits from i up to j - 1
NumberLexeme(s, i, j) ==
    IF At(s, j) = ":"
    THEN Lexeme("time", s, i, Span(s, j + 1, DIGIT_BYTES \cup {":", "."}))
    ELSE IF At(s, j) \in {"-", "/", "."}
    THEN IF IsDigit(At(s, j + 1))
         THEN NumberDated(s, i, j, Span(s, j + 1, DIGIT_BYTES))
         ELSE Lexeme("date", s, i, Span(s, j + 1, ALNUM_BYTES \cup {s[j]}))
    ELSE Lexeme("number", s, i, j)

\* the field that begins with the letters from i up to j - 1: a date if a
\* delimiter follows, or a sign or a digit after a word that is no token
WordLexeme(s, i, j) ==
    IF \/ At(s, j) \in {"-", "/", "."}
       \/ /\ At(s, j) = "+" \/ IsDigit(At(s, j))
          /\ AsciiLower(SubSeq(s, i, j - 1)) \notin DATE_TOKENS
    THEN Lexeme("date", s, i,
                Span(s, j + 1,
                     ALNUM_BYTES \cup {"+", "-", "/", "_", ".", ":"}))
    ELSE Lexeme("string", s, i, j)

\* the sign at i and the bytes from j up to e - 1
Signed(ftype, s, i, j, e) ==
    Field(ftype, <<s[i]>> \o AsciiLower(SubSeq(s, j, e - 1)), e)

\* the field that begins with the sign at i, j being the first position
\* after it that holds no space: a time zone or a signed word
SignLexeme(s, i, j) ==
    IF IsDigit(At(s, j))
    THEN Signed("tz", s, i, j, Span(s, j + 1, DIGIT_BYTES \cup {":", ".", "-"}))
    ELSE IF IsAsciiLetter(At(s, j))
    THEN Signed("special", s, i, j, Span(s, j, ALPHA_BYTES))
    ELSE Field("error", <<>>, j)

\* the field at position i, which holds no space; punctuation is passed
\* over, and no field begins with another byte
FieldAt(s, i) ==
    IF IsDigit(s[i]) THEN NumberLexeme(s, i, Span(s, i, DIGIT_BYTES))
    ELSE IF s[i] = "." THEN Lexeme("number", s, i, Span(s, i + 1, DIGIT_BYTES))
    ELSE IF IsAsciiLetter(s[i]) THEN WordLexeme(s, i, Span(s, i, ALPHA_BYTES))
    ELSE IF s[i] \in {"+", "-"} THEN SignLexeme(s, i, Span(s, i + 1, SPACE_BYTES))
    ELSE IF IsPunct(s[i]) THEN Field("skip", <<>>, i + 1)
    ELSE Field("error", <<>>, i)

\* ParseDateTime: the fields of a text from position i on, after the fields
\* found before, which take `used` bytes of the work buffer of MAXDATELEN
\* (128) and MAXDATEFIELDS (25) bytes; there are at most MAXDATEFIELDS
\* fields.  None for DTERR_BAD_FORMAT
RECURSIVE ParseDateTime(_, _, _, _)

\* the field f is found
FieldParsed(s, f, fields, used) ==
    IF f.ftype = "error" THEN None
    ELSE IF f.ftype = "skip" THEN ParseDateTime(s, f.next, fields, used)
    ELSE IF used + Len(f.text) > (128 + 25) - 1 THEN None
    ELSE ParseDateTime(s, f.next,
                       Append(fields, [ftype |-> f.ftype, text |-> f.text]),
                       used + Len(f.text) + 1)

ParseDateTime(s, i, fields, used) ==
    IF i > Len(s) THEN Some(fields)
    ELSE IF IsCSpace(s[i]) THEN ParseDateTime(s, i + 1, fields, used)
    ELSE IF Len(fields) >= 25 THEN None
    ELSE FieldParsed(s, FieldAt(s, i), fields, used)

INT4_MAX == 2147483647

\* the number of the digits of s from j up to e - 1 after the number m of
\* the digits before, -1 if it is more than INT4_MAX
RECURSIVE DigitsValue(_, _, _, _)
DigitsValue(s, j, e, m) ==
    IF j >= e THEN m
    ELSE DigitsValue(s, j + 1, e,
                     IF m < 0 \/ m > (INT4_MAX - DigitValue(s[j])) \div 10
                     THEN -1
                     ELSE (m * 10) + DigitValue(s[j]))

\* strtoint of the text from i on, whose digits are those from j up to
\* k - 1: the number and the position after it.  Without a digit the number
\* is 0 and the position is i.  A number out of the range of an int
\* (ERANGE) and a negative number, which every caller refuses alike, are
\* both written -1
StrToIntAt(s, i, j, k) ==
    IF k = j THEN [v |-> 0, e |-> i]
    ELSE [v |-> IF s[i] = "-" /\ DigitsValue(s, j, k, 0) # 0
                THEN -1 ELSE DigitsValue(s, j, k, 0),
          e |-> k]

StrToIntFrom(s, i, j) == StrToIntAt(s, i, j, Span(s, j, DIGIT_BYTES))

StrToInt(s, i) ==
    StrToIntFrom(s, i, IF At(s, i) \in {"+", "-"} THEN i + 1 ELSE i)

\* the number of the n digits of s from position a on, "0" standing after
\* the last
DigitsAt(s, a, n) ==
    DecimalValue([k \in 1..n |->
                     IF (a + k) - 1 <= Len(s) THEN s[(a + k) - 1] ELSE "0"])

\* rint(frac * 1000000) for the first six digits us of a fraction and the
\* nine after them: -1 where the rounding of the double decides
Rounded(us, rest) ==
    IF rest \in {499999999, 500000000} THEN -1
    ELSE IF rest > 500000000 THEN us + 1
    ELSE us

\* the microseconds of the digits of a fraction
Microseconds(digits) == Rounded(DigitsAt(digits, 1, 6), DigitsAt(digits, 7, 9))

\* ParseFractionalSecond of the text from the point at p on: the
\* microseconds, -2 for an error (no digit, or a byte after the digits),
\* and -1 where the rounding decides or where the version of the server
\* does (a point that ends the text)
ParseFractionalSecond(s, p) ==
    IF p = Len(s) THEN -1
    ELSE IF ~IsDigit(s[p + 1]) \/ Span(s, p + 1, DIGIT_BYTES) <= Len(s)
    THEN -2
    ELSE Microseconds(SubSeq(s, p + 1, Len(s)))

\* the bits of the masks
DTK_DATE_M == {"year", "month", "day"}
DTK_TIME_M == {"hour", "minute", "second"}

\* what DecodeDateTime keeps while it reads the fields: the outcome so far
\* (status), the mask of the fields read (fmask) and of the field at hand
\* (tmask), struct pg_tm with fsec and the offset tz (east of Greenwich),
\* and the flags.  zone_named: a field is the name or the abbreviation of a
\* time zone, if the tables of the deployment hold it
DecodeBegin ==
    [status |-> "ok", fmask |-> {}, tmask |-> {}, year |-> 0, mon |-> 0,
     mday |-> 0, yday |-> 0, hour |-> 0, min |-> 0, sec |-> 0, fsec |-> 0,
     tz |-> 0, is2digits |-> FALSE, haveTextMonth |-> FALSE, bc |-> FALSE,
     mer |-> <<>>, ptype |-> FALSE, dtype |-> <<>>, zone_named |-> FALSE]

\* a DTERR_ error
Bad(d) == [d EXCEPT !.status = "error"]

\* a text that the versions or the builds of the server read differently
Unread(d) == [d EXCEPT !.status = "env"]

\* hhmmss or hhmm of the digits s
RunTogetherTime(s, fmask, d) ==
    IF DTK_TIME_M \subseteq fmask \/ Len(s) \notin {4, 6} THEN Bad(d)
    ELSE [d EXCEPT !.tmask = DTK_TIME_M,
                   !.hour = DecimalValue(SubSeq(s, 1, 2)),
                   !.min = DecimalValue(SubSeq(s, 3, 4)),
                   !.sec = IF Len(s) = 6 THEN DecimalValue(SubSeq(s, 5, 6))
                           ELSE 0]

\* yyyymmdd or yymmdd of the digits s; atoi of more than nine digits is
\* for the build to read
RunTogetherDate(s, d) ==
    IF Len(s) - 4 > 9 THEN Unread(d)
    ELSE [d EXCEPT !.tmask = DTK_DATE_M,
                   !.mday = DecimalValue(SubSeq(s, Len(s) - 1, Len(s))),
                   !.mon = DecimalValue(SubSeq(s, Len(s) - 3, Len(s) - 2)),
                   !.year = DecimalValue(SubSeq(s, 1, Len(s) - 4)),
                   !.is2digits = @ \/ Len(s) - 4 = 2]

\* the positions of "." in a text
Points(s) == {i \in 1..Len(s) : s[i] = "."}

\* strtod of the text from the point at p on, in microseconds: 0 without
\* a digit
PointFraction(s, p) ==
    IF IsDigit(At(s, p + 1))
    THEN Microseconds(SubSeq(s, p + 1, Span(s, p + 1, DIGIT_BYTES) - 1))
    ELSE 0

\* the run-together time before the point at p, with the fraction fsec
TimeWithFraction(s, p, fsec, fmask, d) ==
    IF fsec < 0 THEN Unread(d)
    ELSE RunTogetherTime(SubSeq(s, 1, p - 1), fmask,
                         [d EXCEPT !.fsec = fsec])

\* DecodeNumberField: a run-together date or time
DecodeNumberField(s, fmask, d) ==
    IF Points(s) # {}
    THEN TimeWithFraction(s, Least(Points(s)),
                          PointFraction(s, Least(Points(s))), fmask, d)
    ELSE IF ~(DTK_DATE_M \subseteq fmask) /\ Len(s) >= 6
    THEN RunTogetherDate(s, d)
    ELSE RunTogetherTime(s, fmask, d)

\* the number val is the year; a year of one or two digits is to adjust
YearRead(d, val, flen) ==
    [d EXCEPT !.tmask = {"year"}, !.year = val, !.is2digits = flen <= 2]

MonthRead(d, val) == [d EXCEPT !.tmask = {"month"}, !.mon = val]

DayRead(d, val) == [d EXCEPT !.tmask = {"day"}, !.mday = val]

\* the switch of DecodeNumber for DateOrder MDY: `have` are the date fields
\* read before
NumberAs(flen, val, haveTextMonth, have, d) ==
    IF flen = 3 /\ have = {"year"} /\ val \in 1..366
    THEN [d EXCEPT !.tmask = {"doy", "month", "day"}, !.yday = val]
    ELSE IF have = {}
    THEN (IF flen >= 3 THEN YearRead(d, val, flen) ELSE MonthRead(d, val))
    ELSE IF have = {"year"} THEN MonthRead(d, val)
    ELSE IF have = {"month"}
    THEN (IF haveTextMonth /\ flen >= 3 THEN YearRead(d, val, flen)
          ELSE DayRead(d, val))
    ELSE IF have = {"year", "month"}
    THEN (IF haveTextMonth /\ flen >= 3 /\ d.is2digits
          THEN [d EXCEPT !.tmask = {"day"}, !.mday = d.year, !.year = val,
                         !.is2digits = FALSE]
          ELSE DayRead(d, val))
    ELSE IF have = {"day"} THEN MonthRead(d, val)
    ELSE IF have = {"month", "day"} THEN YearRead(d, val, flen)
    ELSE Bad(d)

\* DecodeNumber after strtoint gave val and the position cp; fsec is the
\* fraction of a number of at most two digits before the point
DecodeNumberAt(s, cp, val, fsec, haveTextMonth, fmask, d) ==
    IF val < 0 \/ cp = 1 THEN Bad(d)
    ELSE IF At(s, cp) # "." /\ cp <= Len(s) THEN Bad(d)
    ELSE IF fsec = -2 THEN Bad(d)
    ELSE IF fsec = -1 THEN Unread(d)
    ELSE IF At(s, cp) = "." /\ cp > 3
    THEN DecodeNumberField(s, fmask \cup DTK_DATE_M, d)
    ELSE IF DTK_DATE_M \subseteq fmask
    THEN DecodeNumberField(s, fmask, [d EXCEPT !.fsec = fsec])
    ELSE NumberAs(Len(s), val, haveTextMonth, fmask \cap DTK_DATE_M,
                  [d EXCEPT !.fsec = fsec])

DecodeNumberFrom(s, cp, haveTextMonth, fmask, d) ==
    DecodeNumberAt(s, cp, DigitsValue(s, 1, cp, 0),
                   IF At(s, cp) = "." /\ cp <= 3
                   THEN ParseFractionalSecond(s, cp) ELSE d.fsec,
                   haveTextMonth, fmask, d)

\* DecodeNumber: one field of a date or a time in digits
DecodeNumber(s, haveTextMonth, fmask, d) ==
    DecodeNumberFrom(s, Span(s, 1, DIGIT_BYTES), haveTextMonth, fmask, d)

\* the fields of the text of a date from position i on, after the fields
\* found before: runs of digits or of letters, the byte after each being
\* passed over.  None when the text ends after a separator
RECURSIVE DateParts(_, _, _)

\* the field from i, the position after the separators
PartFrom(s, i, parts) ==
    IF i > Len(s) THEN None
    ELSE DateParts(s,
             Span(s, i, IF IsDigit(s[i]) THEN DIGIT_BYTES ELSE ALPHA_BYTES)
                 + 1,
             Append(parts,
                 SubSeq(s, i,
                     Span(s, i,
                          IF IsDigit(s[i]) THEN DIGIT_BYTES
                          ELSE ALPHA_BYTES) - 1)))

DateParts(s, i, parts) ==
    IF i > Len(s) \/ Len(parts) >= 25 THEN Some(parts)
    ELSE PartFrom(s, Span(s, i, NOT_ALNUM_BYTES), parts)

\* the second loop of DecodeDate, from field number k on: the fields in
\* digits, each of which sets bits that are not set yet, and the test that
\* the date is complete and nothing but a date was read
RECURSIVE DateNumbers(_, _, _, _, _)

\* the field number k is read
DateNumbered(parts, k, haveTextMonth, fmask, tmask, r) ==
    IF r.status # "ok" THEN r
    ELSE IF r.tmask \cap fmask # {} THEN Bad(r)
    ELSE DateNumbers(parts, k + 1, haveTextMonth, fmask \cup r.tmask,
                     [r EXCEPT !.tmask = tmask \cup r.tmask])

DateNumbers(parts, k, haveTextMonth, fmask, d) ==
    IF k > Len(parts)
    THEN (IF fmask \ {"doy", "tz"} # DTK_DATE_M THEN Bad(d) ELSE d)
    ELSE IF IsAsciiLetter(parts[k][1])
    THEN DateNumbers(parts, k + 1, haveTextMonth, fmask, d)
    ELSE DateNumbered(parts, k, haveTextMonth, fmask, d.tmask,
                      DecodeNumber(parts[k], haveTextMonth, fmask,
                                   [d EXCEPT !.fsec = 0]))

\* the first loop of DecodeDate: texts are the fields in letters, of which
\* there is at most one, the name of a month
DecodeDateParts(parts, texts, fmask, d) ==
    IF texts # {} /\ \/ Cardinality(texts) > 1
                     \/ "month" \in fmask
                     \/ MonthOf(parts[Least(texts)]) = 0
    THEN Bad(d)
    ELSE DateNumbers(parts, 1, texts # {},
             IF texts # {} THEN fmask \cup {"month"} ELSE fmask,
             IF texts # {}
             THEN [d EXCEPT !.tmask = {"month"},
                            !.mon = MonthOf(parts[Least(texts)])]
             ELSE [d EXCEPT !.tmask = {}])

DecodeDateOf(parts, fmask, d) ==
    IF parts = None THEN Bad(d)
    ELSE DecodeDateParts(parts[1],
             {k \in 1..Len(parts[1]) : IsAsciiLetter(parts[1][k][1])},
             fmask, d)

\* the fraction that DecodeNumber reads in DecodeDate goes to a variable of
\* DecodeDate
DateDecoded(fsec, r) == [r EXCEPT !.fsec = fsec]

\* DecodeDate: a date of fields between delimiters
DecodeDate(s, fmask, d) ==
    DateDecoded(d.fsec, DecodeDateOf(DateParts(s, 1, <<>>), fmask, d))

\* the time of day h:m:sec.fsec, within 24:00:00
TimeRead(h, m, sec, fsec, d) ==
    IF fsec = -2 THEN Bad(d)
    ELSE IF fsec = -1 THEN Unread(d)
    ELSE IF \/ m > 59
            \/ sec > 60
            \/ h > 24
            \/ (((h * 60) + m) * 60) + sec > 86400
            \/ (((h * 60) + m) * 60) + sec = 86400 /\ fsec > 0
    THEN Bad(d)
    ELSE [d EXCEPT !.tmask = DTK_TIME_M, !.hour = h, !.min = m, !.sec = sec,
                   !.fsec = fsec]

\* DecodeTime after the seconds
TimeSeconds(s, h, m, sec, d) ==
    IF sec.v < 0 THEN Bad(d)
    ELSE IF sec.e > Len(s) THEN TimeRead(h, m, sec.v, 0, d)
    ELSE IF s[sec.e] = "."
    THEN TimeRead(h, m, sec.v, ParseFractionalSecond(s, sec.e), d)
    ELSE Bad(d)

\* DecodeTime after the minutes: "mm:ss.fff" when a point follows them
TimeMinutes(s, h, m, d) ==
    IF m.v < 0 THEN Bad(d)
    ELSE IF m.e > Len(s) THEN TimeRead(h, m.v, 0, 0, d)
    ELSE IF s[m.e] = "."
    THEN TimeRead(0, h, m.v, ParseFractionalSecond(s, m.e), d)
    ELSE IF s[m.e] = ":" THEN TimeSeconds(s, h, m.v, StrToInt(s, m.e + 1), d)
    ELSE Bad(d)

\* DecodeTime after the hours
TimeHours(s, h, d) ==
    IF h.v < 0 \/ At(s, h.e) # ":" THEN Bad(d)
    ELSE TimeMinutes(s, h.v, StrToInt(s, h.e + 1), d)

\* DecodeTime, and the test of time_overflows after it
DecodeTime(s, d) == TimeHours(s, StrToInt(s, 1), d)

\* the offset of a time zone in seconds east of Greenwich, e being the
\* position after what was read
ZoneOffset(s, hr, mn, sec, e) ==
    IF hr > 15 \/ mn >= 60 \/ sec >= 60 \/ e <= Len(s) THEN None
    ELSE Some((IF s[1] = "-" THEN -1 ELSE 1)
                  * ((((hr * 60) + mn) * 60) + sec))

ZoneSeconds(s, hr, mn, sec) ==
    IF sec.v < 0 THEN None ELSE ZoneOffset(s, hr, mn, sec.v, sec.e)

ZoneMinutes(s, hr, mn) ==
    IF mn.v < 0 THEN None
    ELSE IF At(s, mn.e) = ":"
    THEN ZoneSeconds(s, hr, mn.v, StrToInt(s, mn.e + 1))
    ELSE ZoneOffset(s, hr, mn.v, 0, mn.e)

\* the hours of a time zone: "hhmm" run together when nothing follows the
\* number and the text has more than three bytes
ZoneHours(s, hr) ==
    IF hr.v < 0 THEN None
    ELSE IF At(s, hr.e) = ":" THEN ZoneMinutes(s, hr.v, StrToInt(s, hr.e + 1))
    ELSE IF hr.e > Len(s) /\ Len(s) > 3
    THEN ZoneOffset(s, hr.v \div 100, hr.v % 100, 0, hr.e)
    ELSE ZoneOffset(s, hr.v, 0, 0, hr.e)

\* DecodeTimezone of a text that begins with a sign
DecodeTimezone(s) == ZoneHours(s, StrToInt(s, 2))

\* the field is the offset tz of a time zone
ZoneRead(tz, d) ==
    IF tz = None THEN Bad(d)
    ELSE [d EXCEPT !.tmask = {"tz"}, !.tz = tz[1]]

\* the time r read before the time zone tz
ZonedTime(tz, r) ==
    IF r.status # "ok" THEN r
    ELSE [r EXCEPT !.tmask = @ \cup {"tz"}, !.tz = tz[1]]

\* a run-together time with its time zone, "hhmmss-zz", cp being the
\* position of the "-": the text before it is read by DecodeNumberField,
\* whose atoi of what is no digit is for the build to read
ZonedRunTogether(s, cp, tz, d) ==
    IF tz = None THEN Bad(d)
    ELSE IF \E k \in 1..(cp - 1) : ~IsDigit(s[k]) /\ s[k] # "."
    THEN Unread(d)
    ELSE ZonedTime(tz, DecodeNumberField(SubSeq(s, 1, cp - 1), d.fmask, d))

\* a field of type DTK_DATE after the month and the day, or after "t"
DateAfterDate(s, dashes, after_t, d) ==
    IF ~after_t /\ ~IsDigit(s[1])
    THEN [d EXCEPT !.tmask = {"tz"}, !.zone_named = TRUE]
    ELSE IF DTK_TIME_M \subseteq d.fmask \/ dashes = {} THEN Bad(d)
    ELSE ZonedRunTogether(s, Least(dashes),
             DecodeTimezone(SubSeq(s, Least(dashes), Len(s))), d)

\* a field of type DTK_DATE
DecodeDateField(s, d) ==
    IF d.ptype \/ {"month", "day"} \subseteq d.fmask
    THEN DateAfterDate(s, {k \in 1..Len(s) : s[k] = "-"}, d.ptype,
                       [d EXCEPT !.ptype = FALSE])
    ELSE DecodeDate(s, d.fmask, d)

\* the time after "t" is hhmmss or hhmm, and nothing else
IsoTime(after_t, r) ==
    IF r.status = "ok" /\ after_t /\ r.tmask # DTK_TIME_M THEN Bad(r) ELSE r

\* a field of type DTK_NUMBER
DecodeNumberToken(s, points, d) ==
    IF ~d.ptype /\ points # {} /\ d.fmask \cap DTK_DATE_M = {}
    THEN DecodeDate(s, d.fmask, d)
    ELSE IF \/ d.ptype
            \/ points # {} /\ Least(points) > 3
            \/ /\ Len(s) >= 6
               /\ \/ d.fmask \cap DTK_DATE_M = {}
                  \/ d.fmask \cap DTK_TIME_M = {}
    THEN IsoTime(d.ptype,
             DecodeNumberField(s,
                 IF d.ptype THEN d.fmask \cup DTK_DATE_M ELSE d.fmask,
                 [d EXCEPT !.ptype = FALSE]))
    ELSE DecodeNumber(s, d.haveTextMonth, d.fmask, d)

\* the name of a month: a month in digits read before it was the day
MonthNamed(month, d) ==
    IF /\ "month" \in d.fmask
       /\ ~d.haveTextMonth
       /\ "day" \notin d.fmask
       /\ d.mon \in 1..31
    THEN [d EXCEPT !.tmask = {"day"}, !.mday = d.mon, !.mon = month,
                   !.haveTextMonth = TRUE]
    ELSE [d EXCEPT !.tmask = {"month"}, !.mon = month,
                   !.haveTextMonth = TRUE]

\* "t" before a time: after the date and before a field, which the
\* versions of the server want to be a number, a time or a date
IsoTimeAhead(fields, i, d) ==
    IF ~(DTK_DATE_M \subseteq d.fmask) \/ i = Len(fields) THEN Bad(d)
    ELSE IF fields[i + 1].ftype \notin {"number", "time", "date"}
    THEN Unread(d)
    ELSE [d EXCEPT !.tmask = {}, !.ptype = TRUE]

\* the date of the day of an ordinal
DayOf(date, d) ==
    [d EXCEPT !.year = date.year, !.mon = date.month, !.mday = date.day]

\* "now": the instant of the clock.  Like the words for a day and
\* "allballs" it makes what is read a date again
NowRead(now, d) ==
    [DayOf(ord_to_ymd(now[1]), d) EXCEPT
        !.tmask = DTK_DATE_M \cup DTK_TIME_M \cup {"tz"}, !.dtype = <<>>,
        !.hour = now[2] \div 3600, !.min = (now[2] % 3600) \div 60,
        !.sec = now[2] % 60, !.fsec = now[3], !.tz = 0]

\* "today", "tomorrow" and "yesterday"
DayRelative(word, today, d) ==
    [DayOf(ord_to_ymd(IF word = TXT_TOMORROW THEN today + 1
                      ELSE IF word = TXT_YESTERDAY THEN today - 1
                      ELSE today), d)
        EXCEPT !.tmask = DTK_DATE_M, !.dtype = <<>>]

\* "epoch", "infinity" and "-infinity": from PostgreSQL 16 on such a word
\* stands for the date, the time and the time zone
SpecialRead(word, d) ==
    [d EXCEPT !.tmask = IF env.pg16
                        THEN DTK_DATE_M \cup DTK_TIME_M \cup {"tz"}
                        ELSE {"reserv"},
              !.dtype = word]

\* a field of type DTK_STRING or DTK_SPECIAL.  A word that is no token is
\* the abbreviation or the name of a time zone, or an error
DecodeWord(fields, i, word, now, d) ==
    CASE word \in UTC_ABBREVS -> [d EXCEPT !.tmask = {"tz"}, !.tz = 0]
      [] word \in IGNORED_TOKENS -> [d EXCEPT !.tmask = {}]
      [] MonthOf(word) # 0 -> MonthNamed(MonthOf(word), d)
      [] word \in DOW_TOKENS -> [d EXCEPT !.tmask = {"dow"}]
      [] word \in MERIDIAN_TOKENS ->
             [d EXCEPT !.tmask = {"ampm"}, !.mer = word]
      [] word \in ERA_TOKENS ->
             [d EXCEPT !.tmask = {"adbc"}, !.bc = word = <<"b", "c">>]
      [] word = <<"t">> -> IsoTimeAhead(fields, i, d)
      [] word = TXT_ALLBALLS ->
             [d EXCEPT !.tmask = DTK_TIME_M \cup {"tz"}, !.dtype = <<>>,
                       !.hour = 0, !.min = 0, !.sec = 0, !.tz = 0]
      [] word = TXT_NOW -> NowRead(now, d)
      [] word \in DAY_TOKENS -> DayRelative(word, now[1], d)
      [] word \in SPECIAL_TOKENS -> SpecialRead(word, d)
      [] word = TXT_PLUS_INFINITY /\ env.pg16 -> SpecialRead(TXT_INFINITY, d)
      [] word \in UNIT_TOKENS -> Unread(d)
      [] OTHER -> [d EXCEPT !.tmask = {"tz"}, !.zone_named = TRUE]

\* the field number i
DecodeField(fields, i, ftype, s, now, d) ==
    CASE ftype = "date" -> DecodeDateField(s, d)
      [] ftype = "time" -> DecodeTime(s, [d EXCEPT !.ptype = FALSE])
      [] ftype = "tz" -> ZoneRead(DecodeTimezone(s), d)
      [] ftype = "number" -> DecodeNumberToken(s, Points(s), d)
      [] OTHER -> DecodeWord(fields, i, s, now, d)

\* the loop of DecodeDateTime from field number i on
RECURSIVE DecodeFields(_, _, _, _)

\* the field number i is read: it sets bits that are not set yet
FieldDecoded(fields, i, now, fmask, r) ==
    IF r.status # "ok" THEN r
    ELSE IF r.tmask \cap fmask # {} THEN Bad(r)
    ELSE DecodeFields(fields, i + 1, now,
                      [r EXCEPT !.fmask = fmask \cup r.tmask])

DecodeFields(fields, i, now, d) ==
    IF i > Len(fields) THEN d
    ELSE FieldDecoded(fields, i, now, d.fmask,
             DecodeField(fields, i, fields[i].ftype, fields[i].text, now, d))

\* ValidateDate: the year of a date with "bc" or of one or two digits
ValidYear(d) ==
    IF "year" \notin d.fmask THEN d
    ELSE IF d.bc
    THEN (IF d.year <= 0 THEN Bad(d) ELSE [d EXCEPT !.year = 0 - (@ - 1)])
    ELSE IF d.is2digits
    THEN [d EXCEPT !.year = IF @ < 70 THEN @ + 2000
                            ELSE IF @ < 100 THEN @ + 1900
                            ELSE @]
    ELSE IF d.year <= 0 THEN Bad(d)
    ELSE d

\* ValidateDate: the month and the day of the day of the year; j2date of a
\* day out of the range of date2j is for the build to read
ValidDayOfYear(d) ==
    IF d.status # "ok" \/ "doy" \notin d.fmask THEN d
    ELSE IF d.year > 5874898 \/ d.year < -4713 THEN Unread(d)
    ELSE IF (ymd_to_ord(d.year, 1, 1) + d.yday) - 1 < ymd_to_ord(-4713, 11, 24)
    THEN Unread(d)
    ELSE DayOf(ord_to_ymd((ymd_to_ord(d.year, 1, 1) + d.yday) - 1), d)

\* ValidateDate: the month and the day are ones of the calendar
ValidMonthDay(d) ==
    IF d.status # "ok" THEN d
    ELSE IF \/ "month" \in d.fmask /\ d.mon \notin 1..12
            \/ "day" \in d.fmask /\ d.mday \notin 1..31
    THEN Bad(d)
    ELSE IF /\ DTK_DATE_M \subseteq d.fmask
            /\ d.mday > days_in_month(d.year, d.mon)
    THEN Bad(d)
    ELSE d

ValidateDate(d) == ValidMonthDay(ValidDayOfYear(ValidYear(d)))

\* the hour of a time with "am" or "pm"
Meridian(d) ==
    IF d.status # "ok" \/ d.mer = <<>> THEN d
    ELSE IF d.hour > 12 THEN Bad(d)
    ELSE IF d.mer = <<"a", "m">> /\ d.hour = 12 THEN [d EXCEPT !.hour = 0]
    ELSE IF d.mer = <<"p", "m">> /\ d.hour # 12
    THEN [d EXCEPT !.hour = @ + 12]
    ELSE d

\* the first day of the timestamps and the day after the last
MIN_TIMESTAMP_DAY == ymd_to_ord(-4713, 11, 24)
END_TIMESTAMP_DAY == ymd_to_ord(294277, 1, 1)

\* the timestamps -infinity and infinity
PgMinusInfinity == PgTimestamp(<<MIN_TIMESTAMP_DAY - 1, 0, 0>>)
PgInfinity == PgTimestamp(<<END_TIMESTAMP_DAY, 0, 0>>)

\* the timestamp of a day and of seconds after its midnight, within the
\* range of the type
TimestampAt(day, seconds, microseconds) ==
    IF day + (seconds \div 86400) < MIN_TIMESTAMP_DAY
           \/ day + (seconds \div 86400) >= END_TIMESTAMP_DAY
    THEN PgError
    ELSE PgTimestamp(<<day + (seconds \div 86400), seconds % 86400,
                       microseconds>>)

\* tm2timestamp: the date is one IS_VALID_JULIAN takes, and the point in
\* time is in the range of the type
tm2timestamp(d) ==
    IF ~(/\ d.year > -4713 \/ (d.year = -4713 /\ d.mon >= 11)
         /\ d.year < 5874898 \/ (d.year = 5874898 /\ d.mon < 6))
    THEN PgError
    ELSE TimestampAt(ymd_to_ord(d.year, d.mon, d.mday),
             ((((d.hour * 60) + d.min) * 60) + d.sec) - d.tz
                 + (d.fsec \div 1000000),
             d.fsec % 1000000)

\* the timestamp of the point in time that is no date
SpecialTimestamp(dtype) ==
    IF dtype = TXT_EPOCH THEN PgTimestamp(<<ymd_to_ord(1970, 1, 1), 0, 0>>)
    ELSE IF dtype = TXT_MINUS_INFINITY THEN PgMinusInfinity
    ELSE PgInfinity

\* the value of what DecodeDateTime read and validated; with the name of a
\* time zone it is for the deployment to read
TimestampOf(d) ==
    IF d.status = "error" THEN PgError
    ELSE IF d.status = "env" THEN env.timestamp
    ELSE IF d.dtype = <<>> /\ ~(DTK_DATE_M \subseteq d.fmask) THEN PgError
    ELSE IF d.zone_named THEN env.timestamp
    ELSE IF d.dtype # <<>> THEN SpecialTimestamp(d.dtype)
    ELSE tm2timestamp(d)

\* the end of DecodeDateTime: from PostgreSQL 16 on the fields of a point
\* in time that is no date are not validated
Validated(d) ==
    IF d.status # "ok" \/ (env.pg16 /\ d.dtype # <<>>) THEN d
    ELSE Meridian(ValidateDate(d))

\* DecodeDateTime of the fields of ParseDateTime
DecodeDateTime(fields, now) ==
    IF fields = None THEN Bad(DecodeBegin)
    ELSE Validated(DecodeFields(fields[1], 1, now, DecodeBegin))

\* timestamptz_in for DateStyle "ISO, MDY" and the time zone UTC of the
\* session.  The text is an error, a point in time, or a text that the
\* deployment decides on: one with the name or the abbreviation of a time
\* zone other than UTC, with a word whose reading changed between the
\* versions of the server, or with a fraction at the edge of a rounding
timestamptz_in(s) ==
    TimestampOf(DecodeDateTime(ParseDateTime(s, 1, <<>>, 0),
                               ClockInstant(clock)))

\* the timestamp of a datetime the driver sends as its isoformat(); an
\* offset with a fraction of a second is for the deployment to read
DatetimeTimestamp(dt) ==
    IF dt.tzinfo # <<>> /\ dt.tzinfo[1].microseconds # 0 THEN env.timestamp
    ELSE PgTimestamp(DatetimeInstant(dt))

\* the digits of the bases of pg_strtoint32_safe
IsDigitOf(b, base) ==
    CASE base = 16 -> IsHexDigit(b)
      [] base = 10 -> IsDigit(b)
      [] base = 8 -> b \in {"0", "1", "2", "3", "4", "5", "6", "7"}
      [] OTHER -> b \in {"0", "1"}

\* the magnitude of the digits from the i-th on, after the magnitude m of
\* the digits before; underscores are passed over.  The magnitudes out of
\* the range of a positive number are written -1 (2^31) and -2 (every
\* larger one)
RECURSIVE Magnitude(_, _, _, _)

\* the magnitude with the digit d at position i
MagnitudeWith(digits, i, base, m, d) ==
    IF m < 0 THEN -2
    ELSE IF m <= (INT4_MAX - d) \div base
    THEN Magnitude(digits, i + 1, base, (m * base) + d)
    ELSE IF \/ /\ d > 0
               /\ ((INT4_MAX - d) + 1) % base = 0
               /\ ((INT4_MAX - d) + 1) \div base = m
            \/ d = 0 /\ base # 10 /\ m = (INT4_MAX \div base) + 1
    THEN Magnitude(digits, i + 1, base, -1)
    ELSE -2

Magnitude(digits, i, base, m) ==
    IF i > Len(digits) THEN m
    ELSE IF digits[i] = "_" THEN Magnitude(digits, i + 1, base, m)
    ELSE MagnitudeWith(digits, i, base, m, HexValue(digits[i]))

\* the digits are digits of the base, with single underscores, each before
\* a digit
ValidDigits(digits, base) ==
    /\ Len(digits) > 0
    /\ base = 10 => digits[1] # "_"
    /\ \A i \in 1..Len(digits) :
           \/ IsDigitOf(digits[i], base)
           \/ /\ digits[i] = "_"
              /\ i < Len(digits)
              /\ IsDigitOf(digits[i + 1], base)

\* the number of the magnitude m
Int4Of(negative, m) ==
    IF m = -2 THEN PgError
    ELSE IF m = -1
    THEN (IF negative THEN PyInt((0 - INT4_MAX) - 1) ELSE PgError)
    ELSE PyInt(IF negative THEN 0 - m ELSE m)

Int4Digits(negative, plain, digits, base) ==
    IF ~ValidDigits(digits, base) \/ (~plain /\ ~env.pg16) THEN PgError
    ELSE Int4Of(negative, Magnitude(digits, 1, base, 0))

\* the base of the text after the sign
BaseOf(body) ==
    IF Len(body) < 2 \/ body[1] # "0" THEN 10
    ELSE IF body[2] \in {"x", "X"} THEN 16
    ELSE IF body[2] \in {"o", "O"} THEN 8
    ELSE IF body[2] \in {"b", "B"} THEN 2
    ELSE 10

Int4Based(negative, body, base) ==
    Int4Digits(negative, AllDigits(body),
               IF base = 10 THEN body ELSE SubSeq(body, 3, Len(body)), base)

Int4Signed(negative, body) == Int4Based(negative, body, BaseOf(body))

Int4Trimmed(t) ==
    Int4Signed(Len(t) > 0 /\ t[1] = "-",
               IF Len(t) > 0 /\ t[1] \in {"-", "+"} THEN Tail(t) ELSE t)

\* int4in (pg_strtoint32_safe): spaces, a sign, digits and spaces, within
\* the range of 32 bits.  From PostgreSQL 16 on the digits may follow 0x,
\* 0o or 0b and hold single underscores, each before a digit
int4in(s) == Int4Trimmed(CTrim(s))

\* the value of an address that network_in read
InetOf(r) == IF r.ok THEN [kind |-> "inet", v |-> r.v] ELSE PgError

\* inet_in
inet_in(s) == InetOf(network_in(s))

\* a < b for two values of one type; in ORDER BY, NULL is larger than
\* every value
ValueLess(a, b) ==
    IF a.kind = "none" THEN FALSE
    ELSE IF b.kind = "none" THEN TRUE
    ELSE IF a.kind = "str" THEN TextLess(a.v, b.v)
    ELSE IF a.kind = "inet" THEN network_cmp(a.v, b.v) < 0
    ELSE IF a.kind = "timestamp"
    THEN \/ a.v[1] < b.v[1]
         \/ a.v[1] = b.v[1] /\ a.v[2] < b.v[2]
         \/ a.v[1] = b.v[1] /\ a.v[2] = b.v[2] /\ a.v[3] < b.v[3]
    ELSE a.v < b.v

\* the value the database compares a column with, for a bound Python value.
\* A comparison by < or > with None, True or False is no expression of
\* SQLAlchemy ("Only '=', '!=', 'is_()', 'is_not()', ... operators can be
\* used with None/True/False"): building the filter raises ArgumentError,
\* whatever the type of the column.  The driver sends an int as a number, a
\* datetime as a timestamp, and a str (one it can encode) as a quoted
\* literal, which the database reads as a value of the column's type.  The
\* Boolean type of SQLAlchemy takes 0 and 1 alone of the numbers.  A value
\* the column's type has no comparison with and a text that is no literal
\* of the column's type make the statement fail
BoundFor(column_kind, bound) ==
    CASE bound.kind \in {"none", "bool"} -> PgError
      [] column_kind = "bool" ->
             IF bound.kind = "int" /\ bound.v \in {0, 1}
             THEN [kind |-> "bool", v |-> bound.v]
             ELSE PgError
      [] bound.kind = "str" ->
             IF Unsendable(bound.v) THEN PgError
             ELSE IF column_kind = "str" THEN bound
             ELSE IF column_kind = "int" THEN int4in(bound.v)
             ELSE IF column_kind = "datetime" THEN timestamptz_in(bound.v)
             ELSE inet_in(bound.v)
      [] bound.kind = "datetime" ->
             IF column_kind = "datetime" THEN DatetimeTimestamp(bound.v)
             ELSE PgError
      [] bound.kind = "int" ->
             IF column_kind = "int" THEN bound ELSE PgError
      [] OTHER -> PgError

\* the statement with a comparison of a column and a bound value fails,
\* `read` being what the value is bound as
ComparisonFails(read) == read.kind = "error"

\* what the value and the id of a cursor are bound as in the filter on a
\* column and on the id
CursorBounds(column_kind, cursor_data) ==
    IF cursor_data.kind # "dict" THEN [value |-> PgError, id |-> PgError]
    ELSE [k \in {"value", "id"} |->
             BoundFor(IF k = "id" THEN "int" ELSE column_kind,
                      cursor_data[k])]

\* a character after the first n is no space
HoldsBeyond(cps, n) == \E i \in (n + 1)..Len(cps) : cps[i] # 32

\* character varying(n): a text of more than n characters is an error
\* unless the characters after the first n are spaces, which are cut off.
\* A text of at most n bytes has at most n characters
VarcharFails(s, n) == Len(s) > n /\ HoldsBeyond(CodePoints(s), n)

CutTo(s, cps, n) == IF Len(cps) > n THEN Utf8(SubSeq(cps, 1, n)) ELSE s

Varchar(s, n) == IF Len(s) <= n THEN s ELSE CutTo(s, CodePoints(s), n)

-----------------------------------------------------------------------------
(* JSON documents and cursors *)

\* json.dumps of one value; default=str turns any other object into its str()
JsonDumpsValue(pv) ==
    CASE pv.kind = "int" -> [type |-> "number", v |-> pv.v]
      [] pv.kind = "str" -> [type |-> "string", v |-> pv.v]
      [] pv.kind = "none" -> [type |-> "null", v |-> 0]
      [] pv.kind = "bool" -> [type |-> "boolean", v |-> pv.v]
      [] pv.kind = "datetime" -> [type |-> "string", v |-> str_datetime(pv.v)]

\* json.loads of one value
JsonLoadsValue(jv) ==
    CASE jv.type = "number" -> PyInt(jv.v)
      [] jv.type = "string" -> PyStr(jv.v)
      [] jv.type = "null" -> PyNone
      [] jv.type = "boolean" -> [kind |-> "bool", v |-> jv.v]

\* the text "" and the base64 text of a JSON object: its members 'value'
\* and 'id', and whether it has members of other names
EmptyText == [form |-> "empty"]
Base64JsonWith(value, id, others) ==
    [form |-> "b64json", value |-> value, id |-> id, others |-> others]
Base64Json(value, id) == Base64JsonWith(value, id, FALSE)

\* a dict {'value': ..., 'id': ...}
PyDict(value, id) == [kind |-> "dict", value |-> value, id |-> id]

_encode_cursor(value, comment_id) ==
    Base64Json(JsonDumpsValue(IF value.kind = "datetime"
                              THEN PyStr(isoformat(value.v))
                              ELSE value),
               JsonDumpsValue(PyInt(comment_id)))

\* texts that are not the base64 of a JSON object: a text b64decode rejects
\* (characters outside the alphabet are discarded first, so this is a wrong
\* length or padding), the base64 of bytes that are not UTF-8, of a text
\* that is not JSON, and of a JSON document that is not an object
NotBase64 == [form |-> "not_base64"]
Base64NotUtf8 == [form |-> "b64_not_utf8"]
Base64NotJson == [form |-> "b64_not_json"]
Base64JsonOther(type) == [form |-> "b64json_other", type |-> type]

JsonDocumentTypes == {"array", "number", "string", "null", "true"}

\* a member a JSON object does not have; dict.get gives None for it
JsonAbsent == [type |-> "absent", v |-> 0]

\* cursor_data.get(member) of the dict json.loads returns
DictGet(jv) == IF jv.type = "absent" THEN PyNone ELSE JsonLoadsValue(jv)

\* json.loads gave the object without members, the dict {}
IsEmptyObject(cursor) ==
    /\ cursor.value.type = "absent"
    /\ cursor.id.type = "absent"
    /\ ~cursor.others

\* the dict {} (falsy), and an exception that leaves a function
PyEmptyDict == [kind |-> "empty_dict", value |-> PyNone, id |-> PyNone]
PyRaise == [kind |-> "raise", v |-> 0]

\* the step of _decode_cursor that raises, if one does
DecodeRaises(cursor) ==
    \/ cursor.form = "not_base64"            \* base64.b64decode
    \/ cursor.form = "b64_not_utf8"          \* bytes.decode
    \/ cursor.form \in {"empty", "b64_not_json"}     \* json.loads
    \/ cursor.form = "b64json_other"         \* cursor_data.get

\* a text that datetime.fromisoformat accepts becomes the datetime
ValueParsed(value, parsed) ==
    IF parsed.ok THEN PyDatetime(parsed.v) ELSE value

\* the 'value' of a cursor
CursorValue(value) ==
    IF value.kind = "str" THEN ValueParsed(value, ParseIsoFormat(value.v))
    ELSE value

\* the dict of a cursor that json.loads gave an object for
CursorDict(cursor) ==
    IF IsEmptyObject(cursor) THEN PyEmptyDict
    ELSE PyDict(CursorValue(DictGet(cursor.value)), DictGet(cursor.id))

\* _decode_cursor without its "except Exception: return None"
_decode_cursor_no_except(cursor) ==
    IF DecodeRaises(cursor) THEN PyRaise ELSE CursorDict(cursor)

_decode_cursor(cursor) ==
    IF DecodeRaises(cursor) THEN PyNone ELSE CursorDict(cursor)

-----------------------------------------------------------------------------
(* The cursor codec on its own *)

C_PLAIN == <<"n", "i", "c", "e", " ", "p", "o", "s", "t", "!">>
C_DATE == <<"2", "0", "2", "4", "-", "0", "1", "-", "0", "1">>
C_SPAM == <<"s", "p", "a", "m", " ", "h", "t", "t", "p", ":", "/", "/", "x">>

CodecValues ==
    {PyDatetime(ClockDatetime(t)) : t \in 0..MaxCodecTime}
        \cup {PyInt(n) : n \in 1..MaxCodecInt}
        \cup {PyStr(s) : s \in {C_PLAIN, C_DATE, C_SPAM, isoformat(ClockDatetime(1))}}

CodecIdle == [pc |-> "idle", value |-> PyNone, id |-> 0,
              cursor |-> EmptyText, decoded |-> PyNone]

\* texts a client can send that are not the base64 of a JSON object
GarbageCursors ==
    {EmptyText, NotBase64, Base64NotUtf8, Base64NotJson}
        \cup {Base64JsonOther(type) : type \in JsonDocumentTypes}

JsonNull == [type |-> "null", v |-> 0]
JsonNumber(n) == [type |-> "number", v |-> n]

\* the base64 of a JSON object that lacks 'value' or 'id', or has null
\* there; {"x": 1} is the object with another member alone
PartialCursors ==
    ({Base64Json(value, id) :
        value \in {JsonAbsent, JsonNull, JsonNumber(1)},
        id \in {JsonAbsent, JsonNull, JsonNumber(1)}}
        \ {Base64Json(JsonNumber(1), JsonNumber(1))})
        \cup {Base64JsonWith(JsonAbsent, JsonAbsent, TRUE)}

\* a value and an id to encode, or a text received from a client
CodecInit ==
    codec \in
        [pc : {"start"}, value : CodecValues, id : 1..MaxCodecId,
         cursor : {EmptyText}, decoded : {PyNone}]
        \cup [pc : {"received"}, value : {PyNone}, id : {0},
              cursor : GarbageCursors \cup PartialCursors, decoded : {PyNone}]

CodecEncode ==
    /\ codec.pc = "start"
    /\ codec' = [codec EXCEPT !.pc = "encoded",
                              !.cursor = _encode_cursor(codec.value, codec.id)]
    /\ UNCHANGED <<store, cache, clock, ticks, zsets, lim, gate, keyed, http,
                 helpers>>

CodecDecode ==
    /\ codec.pc = "encoded"
    /\ codec' = [codec EXCEPT !.pc = "decoded",
                              !.decoded = _decode_cursor(codec.cursor)]
    /\ UNCHANGED <<store, cache, clock, ticks, zsets, lim, gate, keyed, http,
                 helpers>>

\* _decode_cursor of a text received from a client
CodecDecodeReceived ==
    /\ codec.pc = "received"
    /\ codec' = [codec EXCEPT !.pc = "answered",
                              !.decoded = _decode_cursor(codec.cursor)]
    /\ UNCHANGED <<store, cache, clock, ticks, zsets, lim, gate, keyed, http,
                 helpers>>

-----------------------------------------------------------------------------
(* app/utils/helpers.py *)

\* the characters str.isspace() is true of, as code points: U+0009..U+000D,
\* U+001C..U+0020, U+0085, U+00A0, U+1680, U+2000..U+200A, U+2028, U+2029,
\* U+202F, U+205F and U+3000
WHITESPACE ==
    (9..13) \cup (28..32) \cup {133, 160, 5760} \cup (8192..8202)
        \cup {8232, 8233, 8239, 8287, 12288}

IsSpace(c) == c \in WHITESPACE

\* the characters of cps from the first to the last of those at kept
Between(cps, kept) ==
    IF kept = {} THEN <<>> ELSE SubSeq(cps, Least(kept), Greatest(kept))

\* the code points cps without the whitespace at both ends
StripPoints(cps) == Between(cps, {i \in 1..Len(cps) : ~IsSpace(cps[i])})

\* str.strip()
Strip(s) == Utf8(StripPoints(CodePoints(s)))

\* html.escape(s), quote=True
html_escape(s) ==
    Flatten([i \in 1..Len(s) |->
        CASE s[i] = "&" -> <<"&", "a", "m", "p", ";">>
          [] s[i] = "<" -> <<"&", "l", "t", ";">>
          [] s[i] = ">" -> <<"&", "g", "t", ";">>
          [] s[i] = "\"" -> <<"&", "q", "u", "o", "t", ";">>
          [] s[i] = "'" -> <<"&", "#", "x", "2", "7", ";">>
          [] OTHER -> <<s[i]>>])

\* the content trimmed and left as it is
sanitize_content_raw(content) == Strip(content)

\* SecurityUtils.sanitize_content
sanitize_content(content) == html_escape(Strip(content))

spam_keywords ==
    << <<"xE5", "xB9", "xBF", "xE5", "x91", "x8A">>,    \* U+5E7F U+544A
       <<"xE6", "x8E", "xA8", "xE5", "xB9", "xBF">>,    \* U+63A8 U+5E7F
       <<"s", "p", "a", "m">>,
       <<"xE8", "x89", "xB2", "xE6", "x83", "x85">>,    \* U+8272 U+60C5
       <<"xE8", "xB5", "x8C", "xE5", "x8D", "x9A">>,    \* U+8D4C U+535A
       <<"xE5", "x80", "x9F", "xE8", "xB4", "xB7">>,    \* U+501F U+8D37
       <<"xE8", "xB4", "xB7", "xE6", "xAC", "xBE">>,    \* U+8D37 U+6B3E
       <<"xE5", "xBE", "xAE", "xE4", "xBF", "xA1">>,    \* U+5FAE U+4FE1
       <<"Q", "Q">>,
       <<"xE5", "x8A", "xA0", "xE6", "x88", "x91">>,    \* U+52A0 U+6211
       <<"xE8", "x81", "x94", "xE7", "xB3", "xBB", "xE6", "x88", "x91">>,    \* U+8054 U+7CFB U+6211
       <<"h", "t", "t", "p", ":", "/", "/">>,
       <<"h", "t", "t", "p", "s", ":", "/", "/">>,
       <<"xE7", "x82", "xB9", "xE5", "x87", "xBB">>,    \* U+70B9 U+51FB
       <<"xE4", "xBC", "x98", "xE6", "x83", "xA0">>,    \* U+4F18 U+60E0
       <<"xE6", "x89", "x93", "xE6", "x8A", "x98">>,    \* U+6253 U+6298
       <<"xE5", "x85", "x8D", "xE8", "xB4", "xB9">>,    \* U+514D U+8D39
       <<"xE8", "xB5", "x9A", "xE9", "x92", "xB1">> >>    \* U+8D5A U+94B1

\* how many of the keywords the text holds
SpamCount(content_lower, keywords) ==
    Cardinality({i \in 1..Len(keywords) : Contains(content_lower, keywords[i])})

check_spam_content(content) == SpamCount(Lower(content), spam_keywords) >= 2

-----------------------------------------------------------------------------
(* app/schemas/comment.py: CommentBase.validate_content, and the content
   checks of one submission *)

schema_spam_keywords ==
    << <<"xE5", "xB9", "xBF", "xE5", "x91", "x8A">>,    \* U+5E7F U+544A
       <<"xE6", "x8E", "xA8", "xE5", "xB9", "xBF">>,    \* U+63A8 U+5E7F
       <<"s", "p", "a", "m">>,
       <<"xE8", "x89", "xB2", "xE6", "x83", "x85">>,    \* U+8272 U+60C5
       <<"xE8", "xB5", "x8C", "xE5", "x8D", "x9A">> >>    \* U+8D4C U+535A

\* content: str = Field(..., min_length=10, max_length=2000)
CONTENT_MIN_LENGTH == 10
CONTENT_MAX_LENGTH == 2000

\* the field takes a content of 10 to 2000 characters, and then the
\* function raises ValueError (FALSE) or returns the content (TRUE)
validate_content(v) ==
    /\ PyLen(v) >= CONTENT_MIN_LENGTH
    /\ PyLen(v) <= CONTENT_MAX_LENGTH
    /\ Strip(v) # <<>>
    /\ SpamCount(Lower(v), schema_spam_keywords) = 0

W_PREFIX == <<"n", "i", "c", "e", " ", "p", "o", "s", "t", ":">>

\* words of a submitted content: blacklisted terms in several cases (one
\* of them in fullwidth capitals), and one word that is not blacklisted
Words ==
    { <<"t", "h", "a", "n", "k", "s">>,
      <<"s", "p", "a", "m">>,
      <<"S", "p", "a", "m">>,
      <<"xEF", "xBC", "xB3", "xEF", "xBC", "xB0", "xEF", "xBC", "xA1", "xEF", "xBC", "xAD">>,    \* U+FF33 U+FF30 U+FF21 U+FF2D
      <<"Q", "Q">>,
      <<"q", "q">>,
      <<"h", "t", "t", "p", ":", "/", "/">>,
      <<"H", "T", "T", "P", "S", ":", "/", "/">>,
      <<"xE5", "xB9", "xBF", "xE5", "x91", "x8A">>,    \* U+5E7F U+544A
      <<"xE7", "x82", "xB9", "xE5", "x87", "xBB">>,    \* U+70B9 U+51FB
      <<"xE5", "x85", "x8D", "xE8", "xB4", "xB9">> }    \* U+514D U+8D39

\* W_PREFIX followed by the words, each after a space
GateContent(words) ==
    W_PREFIX \o Flatten([i \in 1..Len(words) |-> <<" ">> \o words[i]])

GateContents ==
    {GateContent(words) :
        words \in UNION {[1..n -> Words] : n \in 1..MaxTerms}}

GateIdle == [pc |-> "idle", content |-> <<>>, rejected_by |-> "none"]

\* a content arrives in the body of POST /api/comments
GateInit ==
    gate \in [pc : {"submitted"}, content : GateContents,
              rejected_by : {"none"}]

\* the request body is validated as a CommentCreate
GateValidate ==
    /\ gate.pc = "submitted"
    /\ gate' = IF validate_content(gate.content)
               THEN [gate EXCEPT !.pc = "validated"]
               ELSE [gate EXCEPT !.pc = "rejected",
                                 !.rejected_by = "validate_content"]
    /\ UNCHANGED <<store, cache, clock, ticks, zsets, lim, codec, keyed, http,
                 helpers>>

\* create_comment checks the validated content
GateCheckSpam ==
    /\ gate.pc = "validated"
    /\ gate' = IF check_spam_content(Strip(gate.content))
               THEN [gate EXCEPT !.pc = "rejected",
                                 !.rejected_by = "check_spam_content"]
               ELSE [gate EXCEPT !.pc = "accepted"]
    /\ UNCHANGED <<store, cache, clock, ticks, zsets, lim, codec, keyed, http,
                 helpers>>

RECURSIVE Join(_, _)
Join(parts, sep) ==
    IF Len(parts) = 0 THEN <<>>
    ELSE IF Len(parts) = 1 THEN parts[1]
    ELSE parts[1] \o sep \o Join(Tail(parts), sep)

\* ":".join([prefix] + [str(arg) for arg in args]); args holds the str() of
\* each argument
generate_cache_key(prefix, args) == Join(<<prefix>> \o args, <<":">>)

-----------------------------------------------------------------------------
(* The redis server: string keys with an expiry, and KEYS pattern *)

RECURSIVE SkipStars(_)
SkipStars(p) == IF Len(p) > 0 /\ p[1] = "*" THEN SkipStars(Tail(p)) ELSE p

\* a byte as the int a char converts to: below zero from 128 on where char
\* is signed
CharOf(n) == IF env.char_signed /\ n >= 128 THEN n - 256 ELSE n

CharInt(c) == CharOf(Ord(c))

\* start <= c <= end, after start and end are swapped if start > end
InRange(start, end, c) ==
    IF start > end THEN end <= c /\ c <= start ELSE start <= c /\ c <= end

\* the part [...] of a glob pattern, read after its "[" and after "^":
\* whether it holds c, and the pattern that follows it
RECURSIVE GlobClass(_, _, _)
GlobClass(p, c, m) ==
    IF Len(p) = 0 THEN [match |-> m, rest |-> <<>>]
    ELSE IF p[1] = "\\" /\ Len(p) >= 2
    THEN GlobClass(SubSeq(p, 3, Len(p)), c, m \/ p[2] = c)
    ELSE IF p[1] = "]" THEN [match |-> m, rest |-> Tail(p)]
    ELSE IF Len(p) >= 3 /\ p[2] = "-"
    THEN GlobClass(SubSeq(p, 4, Len(p)), c,
                   m \/ InRange(CharInt(p[1]), CharInt(p[3]), CharInt(c)))
    ELSE GlobClass(Tail(p), c, m \/ p[1] = c)

\* glob-style matching of a whole key against a pattern
RECURSIVE stringmatch(_, _)
\* the match of the rest of the key: at its end only stars may be left
MatchRest(p, s) ==
    IF Len(s) = 0 THEN Len(SkipStars(p)) = 0 ELSE stringmatch(p, s)

\* the match of some end of the key against what follows the stars
MatchStar(p, s) ==
    Len(p) = 0 \/ \E i \in 1..Len(s) : stringmatch(p, SubSeq(s, i, Len(s)))

\* the match after a class [...] was read
MatchClass(cls, neg, s) == cls.match # neg /\ MatchRest(cls.rest, Tail(s))

MatchBracket(p, s, neg) ==
    MatchClass(GlobClass(SubSeq(p, IF neg THEN 3 ELSE 2, Len(p)), s[1], FALSE),
               neg, s)

stringmatch(p, s) ==
    IF Len(p) = 0 \/ Len(s) = 0 THEN Len(p) = 0 /\ Len(s) = 0
    ELSE IF p[1] = "*" THEN MatchStar(SkipStars(p), s)
    ELSE IF p[1] = "?" THEN MatchRest(Tail(p), Tail(s))
    ELSE IF p[1] = "[" THEN MatchBracket(p, s, Len(p) >= 2 /\ p[2] = "^")
    ELSE IF p[1] = "\\" /\ Len(p) >= 2
    THEN p[2] = s[1] /\ MatchRest(SubSeq(p, 3, Len(p)), Tail(s))
    ELSE p[1] = s[1] /\ MatchRest(Tail(p), Tail(s))

\* GET key
RedisGet(key) ==
    IF key \in DOMAIN cache /\ clock < cache[key].expires
    THEN Some(cache[key].value)
    ELSE None

\* SETEX key ttl value, on the key space c
RedisSetex(c, key, ttl, value) ==
    [k \in DOMAIN c \cup {key} |->
        IF k = key THEN [value |-> value, expires |-> clock + ttl] ELSE c[k]]

\* KEYS pattern, on the key space c
RedisKeysIn(c, pattern) ==
    {k \in DOMAIN c : clock < c[k].expires /\ stringmatch(pattern, k)}

\* KEYS pattern
RedisKeys(pattern) == RedisKeysIn(cache, pattern)

\* DEL keys, on the key space c
RedisDelete(c, keys) == [k \in DOMAIN c \ keys |-> c[k]]

\* get_redis() returns redis.from_url(...) of the synchronous redis package:
\* its methods return plain values, so that
\* "await self.redis_client.get(...)" raises TypeError after the command ran
RedisClientIsAwaitable == FALSE

-----------------------------------------------------------------------------
(* app/services/comment_service.py: the cache *)

CACHE_TTL == 300
STATS_TTL == 600

\* await x: the value of an awaitable, TypeError for a plain value
AwaitRaises == ~RedisClientIsAwaitable

\* the lookup of a client whose get can be awaited: a hit is returned
_get_from_cache_hit(cache_key) == RedisGet(cache_key)

\* what the lookup returns: the cached result, or None on a miss or on an
\* exception
_get_from_cache(cache_key) ==
    LET cached_data == RedisGet(cache_key)
    IN  IF AwaitRaises THEN None ELSE cached_data

\* a SETEX with twice the time to live
_set_cache_double_ttl(c, cache_key, data, ttl) ==
    RedisSetex(c, cache_key, ttl + ttl, data)

\* the key space after _set_cache: SETEX runs before the await
_set_cache(c, cache_key, data, ttl) == RedisSetex(c, cache_key, ttl, data)

TXT_COMMENTS == <<"c", "o", "m", "m", "e", "n", "t", "s">>

\* the key space c once KEYS has answered keys: DEL runs only if the await
\* of that answer did not raise, and only for an answer that holds a key
DeleteKeys(c, keys) ==
    IF AwaitRaises THEN c
    ELSE IF keys # {} THEN RedisDelete(c, keys)
    ELSE c

\* the key space c after _clear_page_cache
_clear_page_cache_in(c, page) ==
    DeleteKeys(c, RedisKeysIn(c, <<"*">> \o TXT_COMMENTS \o <<"*">> \o page
                                    \o <<"*">>))

\* _clear_page_cache on the key space as it is
_clear_page_cache(page) == _clear_page_cache_in(cache, page)

-----------------------------------------------------------------------------
(* The comments table *)

\* the place of a row whose INSERT was rolled back: the sequence of
\* comments.id has given its number away and does not take it back
RolledBack == [rolled_back |-> TRUE]

\* the ids of the rows of a table, and of the table as it is
RowIds(s) == {i \in 1..Len(s) : s[i] # RolledBack}
Ids == RowIds(store)

\* the rows of a table by their ids
Rows(s) == [i \in RowIds(s) |-> s[i]]

COL_ID == <<"i", "d">>
COL_PAGE == <<"p", "a", "g", "e">>
COL_EMAIL == <<"e", "m", "a", "i", "l">>
COL_EMAIL_HASH == <<"e", "m", "a", "i", "l", "_", "h", "a", "s", "h">>
COL_USERNAME == <<"u", "s", "e", "r", "n", "a", "m", "e">>
COL_CONTENT == <<"c", "o", "n", "t", "e", "n", "t">>
COL_PARENT_ID == <<"p", "a", "r", "e", "n", "t", "_", "i", "d">>
COL_IS_DELETED == <<"i", "s", "_", "d", "e", "l", "e", "t", "e", "d">>
COL_CREATED_AT == <<"c", "r", "e", "a", "t", "e", "d", "_", "a", "t">>
COL_UPDATED_AT == <<"u", "p", "d", "a", "t", "e", "d", "_", "a", "t">>
COL_IP_ADDRESS == <<"i", "p", "_", "a", "d", "d", "r", "e", "s", "s">>
COL_USER_AGENT == <<"u", "s", "e", "r", "_", "a", "g", "e", "n", "t">>
COL_SYSTEM_TYPE == <<"s", "y", "s", "t", "e", "m", "_", "t", "y", "p", "e">>
COL_LOCATION == <<"l", "o", "c", "a", "t", "i", "o", "n">>

\* the columns of Comment
CommentColumns ==
    {COL_ID, COL_PAGE, COL_EMAIL, COL_EMAIL_HASH, COL_USERNAME, COL_CONTENT,
     COL_PARENT_ID, COL_IS_DELETED, COL_CREATED_AT, COL_UPDATED_AT,
     COL_IP_ADDRESS, COL_USER_AGENT, COL_SYSTEM_TYPE, COL_LOCATION}

\* the sort columns whose values differ between the top-level comments of
\* a page in the tables of the specifications
SortColumns == {COL_CREATED_AT, COL_ID, COL_CONTENT}

ATTR_TO_DICT == <<"t", "o", "_", "d", "i", "c", "t">>
ATTR_GENERATE_EMAIL_HASH == <<"g", "e", "n", "e", "r", "a", "t", "e", "_",
                              "e", "m", "a", "i", "l", "_", "h", "a", "s",
                              "h">>
ATTR_REPR == <<"_", "_", "r", "e", "p", "r", "_", "_">>
ATTR_PARENT == <<"p", "a", "r", "e", "n", "t">>
ATTR_SA_INSTANCE_STATE == <<"_", "s", "a", "_", "i", "n", "s", "t", "a",
                            "n", "c", "e", "_", "s", "t", "a", "t", "e">>

\* the attributes of the class Comment that are no columns: the methods and
\* relationships of models/comment.py, what the declarative base of
\* SQLAlchemy adds, and the attributes of every class of Python 3.11.
\* order_by takes none of them: a function, a number, a tuple or a table
\* is no argument of asc() and desc(), a str is a label the statement does
\* not have, None is the constant NULL, which PostgreSQL refuses in ORDER
\* BY, and a relationship brings a table that is not in FROM
ClassAttributes ==
    {ATTR_TO_DICT, ATTR_GENERATE_EMAIL_HASH, ATTR_REPR, ATTR_PARENT,
     <<"_", "_", "i", "n", "i", "t", "_", "_">>,
     <<"c", "h", "i", "l", "d", "r", "e", "n">>,
     <<"_", "_", "t", "a", "b", "l", "e", "n", "a", "m", "e", "_", "_">>,
     <<"_", "_", "t", "a", "b", "l", "e", "_", "a", "r", "g", "s", "_", "_">>,
     <<"_", "_", "t", "a", "b", "l", "e", "_", "_">>,
     <<"_", "_", "a", "b", "s", "t", "r", "a", "c", "t", "_", "_">>,
     <<"_", "_", "m", "a", "p", "p", "e", "r", "_", "_">>,
     <<"m", "e", "t", "a", "d", "a", "t", "a">>,
     <<"r", "e", "g", "i", "s", "t", "r", "y">>,
     <<"_", "s", "a", "_", "c", "l", "a", "s", "s", "_", "m", "a", "n", "a",
       "g", "e", "r">>,
     <<"_", "s", "a", "_", "r", "e", "g", "i", "s", "t", "r", "y">>,
     <<"_", "_", "a", "n", "n", "o", "t", "a", "t", "i", "o", "n", "s", "_",
       "_">>,
     <<"_", "_", "b", "a", "s", "e", "_", "_">>,
     <<"_", "_", "b", "a", "s", "e", "s", "_", "_">>,
     <<"_", "_", "b", "a", "s", "i", "c", "s", "i", "z", "e", "_", "_">>,
     <<"_", "_", "c", "a", "l", "l", "_", "_">>,
     <<"_", "_", "c", "l", "a", "s", "s", "_", "_">>,
     <<"_", "_", "d", "e", "l", "a", "t", "t", "r", "_", "_">>,
     <<"_", "_", "d", "i", "c", "t", "_", "_">>,
     <<"_", "_", "d", "i", "c", "t", "o", "f", "f", "s", "e", "t", "_", "_">>,
     <<"_", "_", "d", "i", "r", "_", "_">>,
     <<"_", "_", "d", "o", "c", "_", "_">>,
     <<"_", "_", "e", "q", "_", "_">>,
     <<"_", "_", "f", "l", "a", "g", "s", "_", "_">>,
     <<"_", "_", "f", "o", "r", "m", "a", "t", "_", "_">>,
     <<"_", "_", "g", "e", "_", "_">>,
     <<"_", "_", "g", "e", "t", "a", "t", "t", "r", "i", "b", "u", "t", "e",
       "_", "_">>,
     <<"_", "_", "g", "e", "t", "s", "t", "a", "t", "e", "_", "_">>,
     <<"_", "_", "g", "t", "_", "_">>,
     <<"_", "_", "h", "a", "s", "h", "_", "_">>,
     <<"_", "_", "i", "n", "i", "t", "_", "s", "u", "b", "c", "l", "a", "s",
       "s", "_", "_">>,
     <<"_", "_", "i", "n", "s", "t", "a", "n", "c", "e", "c", "h", "e", "c",
       "k", "_", "_">>,
     <<"_", "_", "i", "t", "e", "m", "s", "i", "z", "e", "_", "_">>,
     <<"_", "_", "l", "e", "_", "_">>,
     <<"_", "_", "l", "t", "_", "_">>,
     <<"_", "_", "m", "o", "d", "u", "l", "e", "_", "_">>,
     <<"_", "_", "m", "r", "o", "_", "_">>,
     <<"_", "_", "n", "a", "m", "e", "_", "_">>,
     <<"_", "_", "n", "e", "_", "_">>,
     <<"_", "_", "n", "e", "w", "_", "_">>,
     <<"_", "_", "o", "r", "_", "_">>,
     <<"_", "_", "p", "r", "e", "p", "a", "r", "e", "_", "_">>,
     <<"_", "_", "q", "u", "a", "l", "n", "a", "m", "e", "_", "_">>,
     <<"_", "_", "r", "e", "d", "u", "c", "e", "_", "_">>,
     <<"_", "_", "r", "e", "d", "u", "c", "e", "_", "e", "x", "_", "_">>,
     <<"_", "_", "r", "o", "r", "_", "_">>,
     <<"_", "_", "s", "e", "t", "a", "t", "t", "r", "_", "_">>,
     <<"_", "_", "s", "i", "z", "e", "o", "f", "_", "_">>,
     <<"_", "_", "s", "t", "r", "_", "_">>,
     <<"_", "_", "s", "u", "b", "c", "l", "a", "s", "s", "c", "h", "e", "c",
       "k", "_", "_">>,
     <<"_", "_", "s", "u", "b", "c", "l", "a", "s", "s", "e", "s", "_", "_">>,
     <<"_", "_", "s", "u", "b", "c", "l", "a", "s", "s", "h", "o", "o", "k",
       "_", "_">>,
     <<"_", "_", "t", "e", "x", "t", "_", "s", "i", "g", "n", "a", "t", "u",
       "r", "e", "_", "_">>,
     <<"_", "_", "w", "e", "a", "k", "r", "e", "f", "_", "_">>,
     <<"_", "_", "w", "e", "a", "k", "r", "e", "f", "o", "f", "f", "s", "e",
       "t", "_", "_">>,
     <<"m", "r", "o">>}

ASC == <<"a", "s", "c">>
DESC == <<"d", "e", "s", "c">>

\* the kind of the type of a column
ColumnKind(column) ==
    CASE column \in {COL_ID, COL_PARENT_ID} -> "int"
      [] column = COL_IS_DELETED -> "bool"
      [] column \in {COL_CREATED_AT, COL_UPDATED_AT} -> "datetime"
      [] column = COL_IP_ADDRESS -> "inet"
      [] OTHER -> "str"

\* the attribute of the instance of row id: what the driver returns for
\* the value of the column.  A timestamp with time zone comes as a
\* datetime in the time zone of the session, and an inet as its text
ColumnValue(id, column) ==
    CASE column = COL_ID -> PyInt(id)
      [] column = COL_PAGE -> PyStr(store[id].page)
      [] column = COL_EMAIL -> PyStr(store[id].email)
      [] column = COL_EMAIL_HASH -> PyStr(store[id].email_hash)
      [] column = COL_USERNAME -> PyStr(store[id].username)
      [] column = COL_CONTENT -> PyStr(store[id].content)
      [] column = COL_PARENT_ID ->
             IF store[id].parent_id = None THEN PyNone
             ELSE PyInt(store[id].parent_id[1])
      [] column = COL_IS_DELETED -> PyBool(store[id].is_deleted)
      [] column = COL_CREATED_AT ->
             PyDatetime(ClockDatetime(store[id].created_at))
      [] column = COL_UPDATED_AT ->
             PyDatetime(ClockDatetime(store[id].updated_at))
      [] column = COL_IP_ADDRESS -> PyStr(network_out(store[id].ip_address))
      [] column = COL_USER_AGENT -> PyStr(store[id].user_agent)
      [] column = COL_SYSTEM_TYPE -> PyStr(store[id].system_type)
      [] column = COL_LOCATION -> PyStr(store[id].location)

\* the value of a column of row id in the database
StoredValue(id, column) ==
    CASE column = COL_CREATED_AT ->
             PgTimestamp(ClockInstant(store[id].created_at))
      [] column = COL_UPDATED_AT ->
             PgTimestamp(ClockInstant(store[id].updated_at))
      [] column = COL_IP_ADDRESS ->
             [kind |-> "inet", v |-> store[id].ip_address]
      [] OTHER -> ColumnValue(id, column)

\* a = b for two values of the database
ValueEq(a, b) == a.kind = b.kind /\ a.v = b.v

\* (stored, i) of a row after / before (value, id), the position of a
\* cursor whose value and id the database has read; a comparison of a
\* column that is NULL is not true
AfterPosition(i, stored, value, id) ==
    \/ /\ stored.kind # "none"
       /\ ValueLess(value, stored)
    \/ /\ stored.kind # "none"
       /\ ValueEq(stored, value)
       /\ i > id.v

BeforePosition(i, stored, value, id) ==
    \/ /\ stored.kind # "none"
       /\ ValueLess(stored, value)
    \/ /\ stored.kind # "none"
       /\ ValueEq(stored, value)
       /\ i < id.v

\* (column, id) of row i after / before the cursor position, whose value
\* and id are bound as `bounds`
RowAfterCursor(i, column, bounds) ==
    AfterPosition(i, StoredValue(i, column), bounds.value, bounds.id)

RowBeforeCursor(i, column, bounds) ==
    BeforePosition(i, StoredValue(i, column), bounds.value, bounds.id)

\* (vi, i) comes before (vj, j) in the order
ValueBefore(i, j, vi, vj, order) ==
    IF order = ASC
    THEN ValueLess(vi, vj) \/ (ValueEq(vi, vj) /\ i < j)
    ELSE ValueLess(vj, vi) \/ (ValueEq(vi, vj) /\ i > j)

\* ORDER BY column, id: row i comes before row j
RowBefore(i, j, column, order) ==
    ValueBefore(i, j, StoredValue(i, column), StoredValue(j, column), order)

\* the rows of S in ORDER BY column, id
RECURSIVE OrderBy(_, _, _)
\* the row first, and the other rows of S in their order
FirstAndRest(S, column, order, first) ==
    <<first>> \o OrderBy(S \ {first}, column, order)

OrderBy(S, column, order) ==
    IF S = {} THEN <<>>
    ELSE FirstAndRest(S, column, order,
             CHOOSE i \in S : \A j \in S \ {i} : RowBefore(i, j, column, order))

\* LIMIT n
Limit(rows, n) == SubSeq(rows, 1, IF Len(rows) < n THEN Len(rows) ELSE n)

\* the count without its filter on is_deleted
ReplyCount_with_deleted(id) ==
    Cardinality({j \in Ids : store[j].parent_id = Some(id)})

\* the number of non-deleted rows whose parent_id is id
ReplyCount(id) ==
    Cardinality({j \in Ids : store[j].parent_id = Some(id)
                             /\ ~store[j].is_deleted})

-----------------------------------------------------------------------------
(* The text of a cursor *)

\* one character of a str in json.dumps, which escapes the quote, the
\* backslash and every character outside U+0020..U+007E
JsonCharacter(c) ==
    LET Hex4(n) == <<"\\", "u", HEX_LOWER[(n \div 4096) + 1],
                     HEX_LOWER[((n \div 256) % 16) + 1],
                     HEX_LOWER[((n \div 16) % 16) + 1],
                     HEX_LOWER[(n % 16) + 1]>>
    IN  CASE c = 34 -> <<"\\", "\"">>
          [] c = 92 -> <<"\\", "\\">>
          [] c = 10 -> <<"\\", "n">>
          [] c = 13 -> <<"\\", "r">>
          [] c = 9 -> <<"\\", "t">>
          [] c = 12 -> <<"\\", "f">>
          [] c = 8 -> <<"\\", "b">>
          [] c >= 32 /\ c <= 126 -> <<Chr(c)>>
          [] c >= 65536 ->
                 Hex4(55296 + ((c - 65536) \div 1024))
                     \o Hex4(56320 + ((c - 65536) % 1024))
          [] OTHER -> Hex4(c)

\* json.dumps of a str
JsonString(s) ==
    LET cps == CodePoints(s)
    IN  <<"\"">> \o Flatten([i \in 1..Len(cps) |-> JsonCharacter(cps[i])])
            \o <<"\"">>

\* the text of one JSON value
JsonText(jv) ==
    CASE jv.type = "number" ->
             IF jv.v < 0 THEN <<"-">> \o Decimal(0 - jv.v) ELSE Decimal(jv.v)
      [] jv.type = "string" -> JsonString(jv.v)
      [] jv.type = "null" -> <<"n", "u", "l", "l">>
      [] jv.type = "boolean" ->
             IF jv.v = 1 THEN <<"t", "r", "u", "e">> ELSE <<"f", "a", "l",
                                                            "s", "e">>

\* the text of the JSON object of a cursor, as json.dumps writes it; a
\* member of another name is "x": 1
JsonObjectText(cursor) ==
    LET members ==
            (IF cursor.value.type = "absent" THEN <<>>
             ELSE <<<<"\"", "v", "a", "l", "u", "e", "\"", ":", " ">> \o JsonText(cursor.value)>>)
            \o (IF cursor.id.type = "absent" THEN <<>>
                ELSE <<<<"\"", "i", "d", "\"", ":", " ">> \o JsonText(cursor.id)>>)
            \o (IF cursor.others THEN <<<<"\"", "x", "\"", ":", " ", "1">>>> ELSE <<>>)
    IN  <<"{">> \o Join(members, <<",", " ">>) \o <<"}">>

B64_ALPHABET ==
    <<"A", "B", "C", "D", "E", "F", "G", "H", "I", "J", "K", "L", "M", "N",
      "O", "P", "Q", "R", "S", "T", "U", "V", "W", "X", "Y", "Z", "a", "b",
      "c", "d", "e", "f", "g", "h", "i", "j", "k", "l", "m", "n", "o", "p",
      "q", "r", "s", "t", "u", "v", "w", "x", "y", "z", "0", "1", "2", "3",
      "4", "5", "6", "7", "8", "9", "+", "/">>

\* base64.b64encode
b64encode(s) ==
    LET n == Len(s)
        Byte(i) == IF i <= n THEN Ord(s[i]) ELSE 0
        Sextet(k) ==
            LET g == 3 * ((k - 1) \div 4)
                j == (k - 1) % 4
            IN  CASE j = 0 -> Byte(g + 1) \div 4
                  [] j = 1 -> ((Byte(g + 1) % 4) * 16) + (Byte(g + 2) \div 16)
                  [] j = 2 -> ((Byte(g + 2) % 16) * 4) + (Byte(g + 3) \div 64)
                  [] OTHER -> Byte(g + 3) % 64
        IsPadding(k) ==
            LET g == 3 * ((k - 1) \div 4)
                j == (k - 1) % 4
            IN  (j = 2 /\ g + 2 > n) \/ (j = 3 /\ g + 3 > n)
    IN  [k \in 1..(4 * ((n + 2) \div 3)) |->
            IF IsPadding(k) THEN "=" ELSE B64_ALPHABET[Sextet(k) + 1]]

\* the text of a JSON document that is no object, of each type
JsonOtherText(type) ==
    CASE type = "array" -> <<"[", "]">>
      [] type = "number" -> <<"1">>
      [] type = "string" -> <<"\"", "a", "\"">>
      [] type = "null" -> <<"n", "u", "l", "l">>
      [] OTHER -> <<"t", "r", "u", "e">>

\* the bytes a cursor is the base64 of: the byte FF stands for those that
\* are not UTF-8, and "x" for those that are not JSON
CursorBytes(cursor) ==
    CASE cursor.form = "b64_not_utf8" -> <<"xFF">>
      [] cursor.form = "b64_not_json" -> <<"x">>
      [] cursor.form = "b64json_other" -> JsonOtherText(cursor.type)
      [] OTHER -> JsonObjectText(cursor)

\* str(cursor or ""): the text of a cursor.  Of the texts that are no
\* base64, the text of one character stands for those b64decode rejects
CursorText(cursor) ==
    CASE cursor.form = "empty" -> <<>>
      [] cursor.form = "not_base64" -> <<"a">>
      [] OTHER -> b64encode(CursorBytes(cursor))

-----------------------------------------------------------------------------
(* app/services/comment_service.py: the read queries *)

TXT_COMMENTS_CURSOR ==
    <<"c", "o", "m", "m", "e", "n", "t", "s", "_", "c", "u", "r", "s", "o", "r">>
TXT_REPLIES == <<"r", "e", "p", "l", "i", "e", "s">>
TXT_PAGE_STATS == <<"p", "a", "g", "e", "_", "s", "t", "a", "t", "s">>
TXT_TRUE == <<"T", "r", "u", "e">>

\* one entry of "comments" in a response
CommentItem(id, reply_count) ==
    [id |-> id, content |-> store[id].content, reply_count |-> reply_count]

\* cursor_data = self._decode_cursor(cursor) if cursor else None
CursorData(cursor) ==
    IF cursor.form # "empty" THEN _decode_cursor(cursor) ELSE PyNone

\* the cursor filter fails: building it raises (a value or an id that is
\* None, True or False, as for a member the cursor does not have), or the
\* database refuses the comparison
CursorFails(cursor_data, bounds) ==
    /\ cursor_data.kind = "dict"
    /\ ComparisonFails(bounds.value) \/ ComparisonFails(bounds.id)

\* the query fetched rows, or it failed
Fetched(rows) == [outcome |-> "ok", rows |-> rows]
QueryFailed == [outcome |-> "DatabaseException"]

\* the rows of `base` that the cursor filter keeps
CursorFiltered(base, column, order, cursor_data, bounds) ==
    IF cursor_data.kind # "dict" THEN base
    ELSE {i \in base : IF order = ASC
                       THEN RowAfterCursor(i, column, bounds)
                       ELSE RowBeforeCursor(i, column, bounds)}

\* the statement on the rows `base` that WHERE keeps: the cursor filter,
\* ORDER BY and LIMIT limit + 1
RowsFetched(base, column, order, cursor_data, bounds, limit) ==
    IF CursorFails(cursor_data, bounds) THEN QueryFailed
    ELSE Fetched(Limit(OrderBy(CursorFiltered(base, column, order,
                                              cursor_data, bounds),
                               column, order),
                       limit + 1))

\* the rows get_comments fetches: WHERE, the cursor filter, ORDER BY and
\* LIMIT limit + 1
CommentRows(query, order_column, cursor_data) ==
    RowsFetched({i \in Ids : /\ store[i].page = query.page
                             /\ ~store[i].is_deleted
                             /\ store[i].parent_id = None},
                order_column, IF query.order = ASC THEN ASC ELSE DESC,
                cursor_data,
                CursorBounds(ColumnKind(order_column), cursor_data),
                query.limit)

\* str() of the InstanceState of an instance, which json.dumps takes by
\* default=str
InstanceStateText ==
    <<"<", "s", "q", "l", "a", "l", "c", "h", "e", "m", "y", ".", "o", "r",
      "m", ".", "s", "t", "a", "t", "e", ".", "I", "n", "s", "t", "a", "n",
      "c", "e", "S", "t", "a", "t", "e", " ", "o", "b", "j", "e", "c", "t",
      " ", "a", "t", " ", "0", "x">>
        \o env.address \o <<">">>

\* the page get_comments makes of the comments it returns; cursor_value is
\* getattr(last_comment, query.sort)
PageOf(comments, has_next, cursor_value) ==
    [comments |-> [k \in 1..Len(comments) |->
                      CommentItem(comments[k], ReplyCount(comments[k]))],
     has_next |-> has_next,
     next_cursor |-> IF has_next /\ Len(comments) > 0
                     THEN Some(_encode_cursor(cursor_value,
                                              comments[Len(comments)]))
                     ELSE None]

\* getattr(comment, sort): a column, or the state of the instance
Getattr(comment, sort) ==
    IF sort = ATTR_SA_INSTANCE_STATE
    THEN PyStr(InstanceStateText)
    ELSE ColumnValue(comment, sort)

CommentsOf(query, comments, has_next) ==
    \* getattr(last_comment, query.sort) finds no attribute
    IF /\ has_next
       /\ Len(comments) > 0
       /\ query.sort \notin CommentColumns
       /\ query.sort # ATTR_SA_INSTANCE_STATE
    THEN [outcome |-> "DatabaseException"]
    ELSE [outcome |-> "ok",
          result |-> PageOf(comments, has_next,
                            Getattr(comments[Len(comments)], query.sort))]

\* the rows a page returns: "comments[:-1]" if has_next
Returned(rows, has_next) ==
    IF has_next THEN SubSeq(rows, 1, Len(rows) - 1) ELSE rows

\* the page get_comments makes of the rows fetched
CommentsPage(query, rows) ==
    CommentsOf(query, Returned(rows, Len(rows) > query.limit),
               Len(rows) > query.limit)

\* the page of what the query fetched
CommentsFetched(query, fetched) ==
    IF fetched.outcome = "ok" THEN CommentsPage(query, fetched.rows)
    ELSE fetched

\* the statement fails for its ORDER BY: the attribute of the class that
\* sort names is no column
OrderByFails(sort) == sort \in ClassAttributes

\* get_comments past the cache lookup, with the sort column and the decoded
\* cursor
get_comments_from(query, order_column, cursor_data) ==
    CommentsFetched(query, CommentRows(query, order_column, cursor_data))

\* what get_comments computes from the table: a page, or the query fails
get_comments_query(query) ==
    IF OrderByFails(query.sort) \/ Unsendable(query.page)
    THEN [outcome |-> "DatabaseException"]
    ELSE get_comments_from(query,
                           IF query.sort \in CommentColumns
                           THEN query.sort
                           ELSE COL_CREATED_AT,
                           CursorData(query.cursor))

\* a read through the cache: the cached value on a hit; on a miss what the
\* query computed, stored under the key when the query did not fail
CacheWrapped(cache_key, cached_result, computed, ttl) ==
    IF cached_result # None
    THEN [outcome |-> "ok", result |-> cached_result[1], cache |-> cache]
    ELSE IF computed.outcome # "ok"
    THEN [outcome |-> computed.outcome, cache |-> cache]
    ELSE [outcome |-> "ok", result |-> computed.result,
          cache |-> _set_cache(cache, cache_key, computed.result, ttl)]

\* a read that looks its key up in the cache first
CachedRead(cache_key, computed, ttl) ==
    CacheWrapped(cache_key, _get_from_cache(cache_key), computed, ttl)

\* the response of get_comments(query) and the key space after it
get_comments(query) ==
    CachedRead(generate_cache_key(TXT_COMMENTS_CURSOR,
                   <<query.page, CursorText(query.cursor),
                     Decimal(query.limit), query.sort, query.order,
                     TXT_TRUE>>),
               get_comments_query(query), CACHE_TTL)

\* get_replies with a cursor filter on created_at alone, without the clause
\* on the id of rows that share the cursor's created_at
ReplyRows_no_tiebreak(query, cursor_data) ==
    LET base == {i \in Ids : /\ store[i].parent_id = Some(query.parent_id)
                             /\ ~store[i].is_deleted}
        bounds == CursorBounds("datetime", cursor_data)
        filtered ==
            IF cursor_data.kind = "dict"
            THEN {i \in base :
                     ValueLess(bounds.value, StoredValue(i, COL_CREATED_AT))}
            ELSE base
    IN  IF CursorFails(cursor_data, bounds) THEN QueryFailed
        ELSE Fetched(Limit(OrderBy(filtered, COL_CREATED_AT, ASC),
                           query.limit + 1))

\* the rows get_replies fetches: WHERE, the cursor filter, ORDER BY and
\* LIMIT limit + 1
ReplyRows(query, cursor_data) ==
    RowsFetched({i \in Ids : /\ store[i].parent_id = Some(query.parent_id)
                             /\ ~store[i].is_deleted},
                COL_CREATED_AT, ASC, cursor_data,
                CursorBounds("datetime", cursor_data), query.limit)

\* the page get_replies makes of the replies it returns
RepliesOf(replies, has_next) ==
    [comments |-> [k \in 1..Len(replies) |-> CommentItem(replies[k], 0)],
     has_next |-> has_next,
     next_cursor |->
         IF has_next /\ Len(replies) > 0
         THEN Some(_encode_cursor(ColumnValue(replies[Len(replies)],
                                              COL_CREATED_AT),
                                  replies[Len(replies)]))
         ELSE None]

\* the page get_replies makes of the rows fetched
RepliesPage(query, rows) ==
    RepliesOf(Returned(rows, Len(rows) > query.limit),
              Len(rows) > query.limit)

\* the page of what the query fetched
RepliesFetched(query, fetched) ==
    IF fetched.outcome = "ok"
    THEN [outcome |-> "ok", result |-> RepliesPage(query, fetched.rows)]
    ELSE fetched

\* get_replies past the cache lookup, with the decoded cursor
get_replies_from(query, cursor_data) ==
    RepliesFetched(query, ReplyRows(query, cursor_data))

\* what get_replies computes from the table: a page, or the query fails
get_replies_query(query) == get_replies_from(query, CursorData(query.cursor))

\* the response of get_replies(query) and the key space after it
get_replies(query) ==
    CachedRead(generate_cache_key(TXT_REPLIES,
                   <<Decimal(query.parent_id), CursorText(query.cursor),
                     Decimal(query.limit)>>),
               get_replies_query(query), CACHE_TTL)

\* the lookup without its filter on is_deleted
get_comment_by_id_any_row(comment_id) ==
    IF comment_id \in Ids THEN Some(comment_id) ELSE None

\* the row get_comment_by_id returns, if any
get_comment_by_id(comment_id) ==
    IF comment_id \in Ids /\ ~store[comment_id].is_deleted
    THEN Some(comment_id)
    ELSE None

\* filter(page == page, is_deleted == False).count()
CountComments(page) ==
    Cardinality({i \in Ids : store[i].page = page /\ ~store[i].is_deleted})

\* the count of top-level comments without its filter on is_deleted
CountTopLevel_with_deleted(page) ==
    Cardinality({i \in Ids : /\ store[i].page = page
                             /\ store[i].parent_id = None})

\* filter(page == page, parent_id IS NULL, is_deleted == False).count()
CountTopLevel(page) ==
    Cardinality({i \in Ids : /\ store[i].page = page
                             /\ store[i].parent_id = None
                             /\ ~store[i].is_deleted})

\* what get_page_stats computes from the table
PageStats(total_comments, top_level_comments) ==
    [total_comments |-> total_comments,
     top_level_comments |-> top_level_comments,
     replies |-> total_comments - top_level_comments]

get_page_stats_query(page) ==
    PageStats(CountComments(page), CountTopLevel(page))

\* the response of get_page_stats(page) and the key space after it; the
\* counts fail for a page the driver does not send
StatsRead(cache_key, cached_result, page, result) ==
    IF cached_result # None
    THEN [outcome |-> "ok", result |-> cached_result[1], cache |-> cache]
    ELSE IF Unsendable(page)
    THEN [outcome |-> "DatabaseException", cache |-> cache]
    ELSE [outcome |-> "ok", result |-> result,
          cache |-> _set_cache(cache, cache_key, result, STATS_TTL)]

StatsKeyed(cache_key, page) ==
    StatsRead(cache_key, _get_from_cache(cache_key), page,
              get_page_stats_query(page))

get_page_stats(page) == StatsKeyed(TXT_PAGE_STATS \o <<":">> \o page, page)

-----------------------------------------------------------------------------
(* app/utils/user_info.py: SystemDetector *)

TXT_UNKNOWN == <<"xE6", "x9C", "xAA", "xE7", "x9F", "xA5">>    \* U+672A U+77E5
TXT_OTHER == <<"xE5", "x85", "xB6", "xE4", "xBB", "x96">>    \* U+5176 U+4ED6

SYS_WINDOWS == <<"W", "i", "n", "d", "o", "w", "s">>
SYS_MACOS == <<"m", "a", "c", "O", "S">>
SYS_LINUX == <<"L", "i", "n", "u", "x">>
SYS_IOS == <<"i", "O", "S">>
SYS_ANDROID == <<"A", "n", "d", "r", "o", "i", "d">>

\* SYSTEM_PATTERNS: the alternatives of each pattern and its system type
SYSTEM_PATTERNS ==
    <<[alternatives |->
           {<<"W", "i", "n", "d", "o", "w", "s", " ", "N", "T">>,
            <<"W", "i", "n", "d", "o", "w", "s">>},
       system_type |-> SYS_WINDOWS],
      [alternatives |->
           {<<"M", "a", "c", "i", "n", "t", "o", "s", "h">>,
            <<"M", "a", "c", " ", "O", "S", " ", "X">>,
            <<"m", "a", "c", "O", "S">>},
       system_type |-> SYS_MACOS],
      [alternatives |->
           {<<"L", "i", "n", "u", "x">>,
            <<"U", "b", "u", "n", "t", "u">>,
            <<"C", "e", "n", "t", "O", "S">>,
            <<"D", "e", "b", "i", "a", "n">>,
            <<"F", "e", "d", "o", "r", "a">>},
       system_type |-> SYS_LINUX],
      [alternatives |->
           {<<"i", "P", "h", "o", "n", "e">>,
            <<"i", "P", "a", "d">>,
            <<"i", "P", "o", "d">>},
       system_type |-> SYS_IOS],
      [alternatives |->
           {<<"A", "n", "d", "r", "o", "i", "d">>},
       system_type |-> SYS_ANDROID]>>

\* the letter a character stands for under re.IGNORECASE: its lowercase,
\* with U+0130 and U+0131 for i, U+017F for s and U+212A for k
IgnoreCase(c) ==
    IF 65 <= c /\ c <= 90 THEN c + 32
    ELSE IF c = 304 \/ c = 305 THEN 105
    ELSE IF c = 383 THEN 115
    ELSE IF c = 8490 THEN 107
    ELSE c

\* re.search(pattern, text, re.IGNORECASE) for a pattern made of
\* alternatives of letters and spaces
SearchIgnoreCase(alternatives, text) ==
    LET cps == CodePoints(text)
    IN  \E term \in alternatives :
            \E i \in 1..(Len(cps) - Len(term) + 1) :
                \A k \in 1..Len(term) :
                    IgnoreCase(cps[i + k - 1]) = IgnoreCase(Ord(term[k]))

\* SystemDetector.detect_system
detect_system(user_agent) ==
    LET matching == {n \in 1..Len(SYSTEM_PATTERNS) :
                        SearchIgnoreCase(SYSTEM_PATTERNS[n].alternatives,
                                         user_agent)}
    IN  IF user_agent = <<>> THEN TXT_UNKNOWN
        ELSE IF matching = {} THEN TXT_OTHER
        ELSE SYSTEM_PATTERNS[CHOOSE n \in matching :
                                \A m \in matching : n <= m].system_type

-----------------------------------------------------------------------------
(* app/utils/user_info.py: LocationService *)

TXT_LOCAL == <<"xE6", "x9C", "xAC", "xE5", "x9C", "xB0">>    \* U+672C U+5730
TXT_LOCATION == <<"l", "o", "c", "a", "t", "i", "o", "n">>
TXT_LOCALHOST == <<"l", "o", "c", "a", "l", "h", "o", "s", "t">>
IP_LOOPBACK == <<"1", "2", "7", ".", "0", ".", "0", ".", "1">>
IP6_LOOPBACK == <<":", ":", "1">>
IP_PUBLIC == <<"8", ".", "8", ".", "8", ".", "8">>
TXT_COUNTRY == <<"xE4", "xB8", "xAD", "xE5", "x9B", "xBD">>    \* U+4E2D U+56FD
TXT_CITY == <<"xE5", "x8C", "x97", "xE4", "xBA", "xAC">>    \* U+5317 U+4EAC

\* settings.VORE_API_CACHE_TTL, and range(3) of the request loop
VORE_API_CACHE_TTL == 86400
API_ATTEMPTS == 3

\* f"location:{ip}"
_get_cache_key(ip) == TXT_LOCATION \o <<":">> \o ip

\* bool(x) of a value of a JSON document: a str, an int, a bool (held as 0
\* or 1) or None
Truthy(pv) ==
    CASE pv.kind = "str" -> Len(pv.v) > 0
      [] pv.kind \in {"int", "bool"} -> pv.v # 0
      [] OTHER -> FALSE

\* x != y of two such values; True and False are equal to 1 and 0
PyNotEqual(a, b) ==
    IF a.kind \in {"int", "bool"} /\ b.kind \in {"int", "bool"}
    THEN a.v # b.v
    ELSE a.kind # b.kind \/ a.v # b.v

\* a JSON body that is no object, and an object with 'success' and 'info'
\* (info: "dict", "absent", or "null" for a value that has no get)
JsonList == [kind |-> "list"]

ApiBody(success, info, country, region, city) ==
    [kind |-> "dict", success |-> success, info |-> info,
     country |-> country, region |-> region, city |-> city]

\* the members appended to parts
LocationParts(country, region, city) ==
    (IF Truthy(country) /\ PyNotEqual(country, PyStr(TXT_UNKNOWN))
     THEN <<country>> ELSE <<>>)
    \o (IF /\ Truthy(region)
           /\ PyNotEqual(region, PyStr(TXT_UNKNOWN))
           /\ PyNotEqual(region, country)
        THEN <<region>> ELSE <<>>)
    \o (IF /\ Truthy(city)
           /\ PyNotEqual(city, PyStr(TXT_UNKNOWN))
           /\ PyNotEqual(city, region)
        THEN <<city>> ELSE <<>>)

\* "if parts: return ' '.join(parts)": join raises TypeError for a part
\* that is no str, and the except clause answers "未知"
JoinedParts(parts) ==
    IF parts = <<>> THEN TXT_UNKNOWN
    ELSE IF \E i \in 1..Len(parts) : parts[i].kind # "str"
    THEN TXT_UNKNOWN
    ELSE Join([i \in 1..Len(parts) |-> parts[i].v], <<" ">>)

\* _parse_location_response: every exception (data.get of a list, info.get
\* of a value that is no dict, ' '.join of a part that is no str) is caught
\* and gives "未知"
_parse_location_response(data) ==
    IF data.kind # "dict" THEN TXT_UNKNOWN
    ELSE IF ~Truthy(data.success) THEN TXT_UNKNOWN
    ELSE IF data.info = "absent" THEN TXT_UNKNOWN
    ELSE IF data.info # "dict" THEN TXT_UNKNOWN
    ELSE JoinedParts(LocationParts(data.country, data.region, data.city))

\* what one "await client.get(url)" brings: httpx.TimeoutException, another
\* exception, a status other than 200, a 200 whose body is no JSON, or a 200
\* with a JSON body
ApiTimeout == [kind |-> "timeout"]
ApiError == [kind |-> "error"]
ApiStatus == [kind |-> "status"]
ApiMalformed == [kind |-> "malformed"]
ApiOk(data) == [kind |-> "ok", data |-> data]

\* the except clauses of the request loop: "if attempt < 2: continue" and
\* "break"
OnRequestError(attempt) ==
    IF attempt < API_ATTEMPTS - 1 THEN "continue" ELSE "break"

\* the iteration `attempt` of the request loop from the answer to its
\* request on: the function returns a location, or the loop sends the next
\* request.  A status other than 200 is logged and the loop goes on; a body
\* that is no JSON raises in response.json() and reaches "except Exception"
RequestAnswered(attempt, answer) ==
    IF answer.kind = "ok"
    THEN [next |-> "return",
          location |-> _parse_location_response(answer.data)]
    ELSE IF \/ answer.kind = "status" /\ attempt + 1 >= API_ATTEMPTS
            \/ answer.kind # "status" /\ OnRequestError(attempt) = "break"
    THEN [next |-> "return", location |-> TXT_UNKNOWN]
    ELSE [next |-> "request", location |-> <<>>]

\* the request loop from the iteration `attempt` on; api holds what the API
\* does at each request.  The result: the location and the number of requests
\* sent.
RECURSIVE FetchFrom(_, _)

FetchAnswered(api, attempt, r) ==
    IF r.next = "return"
    THEN [raises |-> FALSE, location |-> r.location, attempts |-> attempt + 1]
    ELSE FetchFrom(api, attempt + 1)

FetchFrom(api, attempt) ==
    FetchAnswered(api, attempt, RequestAnswered(attempt, api[attempt + 1]))

\* an outer except clause that raises again
OnFetchError_reraise == "raise"

\* "except Exception as e" of _fetch_location_from_api (lines 128-129): the
\* error is logged and the function goes on to its last line
OnFetchError == "return"

\* client_ok: httpx.AsyncClient(...) is constructed and entered without an
\* exception; when it is not, no request is sent
_fetch_location_from_api(client_ok, api) ==
    IF client_ok THEN FetchFrom(api, 0)
    ELSE IF OnFetchError = "return"
    THEN [raises |-> FALSE, location |-> TXT_UNKNOWN, attempts |-> 0]
    ELSE [raises |-> TRUE, location |-> <<>>, attempts |-> 0]

\* "if not ip or ip in ['127.0.0.1', 'localhost', '::1']"
IsLocalAddress(ip) ==
    ip = <<>> \/ ip \in {IP_LOOPBACK, TXT_LOCALHOST, IP6_LOOPBACK}

\* lines 73-79: the location the cache holds for the address, if the GET
\* runs without an exception (get_ok) and its value is not empty
CachedLocation(ip, get_ok) ==
    IF get_ok /\ RedisGet(_get_cache_key(ip)) # None
              /\ RedisGet(_get_cache_key(ip))[1] # <<>>
    THEN RedisGet(_get_cache_key(ip))
    ELSE None

\* get_location waits for the API: the address is not local, the cache gave
\* no location, and the client was constructed
Suspends(ip, get_ok, client_ok) ==
    /\ ~IsLocalAddress(ip)
    /\ CachedLocation(ip, get_ok) = None
    /\ client_ok

\* lines 84-91 of get_location, with what _fetch_location_from_api gave:
\* SETEX, unless it raises (setex_ok), and the return
LocationFetched(ip, setex_ok, fetched) ==
    IF fetched.raises
    THEN [raises |-> TRUE, location |-> <<>>,
          attempts |-> fetched.attempts, cache |-> cache]
    ELSE [raises |-> FALSE, location |-> fetched.location,
          attempts |-> fetched.attempts,
          cache |-> IF setex_ok
                    THEN RedisSetex(cache, _get_cache_key(ip),
                                    VORE_API_CACHE_TTL, fetched.location)
                    ELSE cache]

\* get_location past its test of the address, with the location the cache
\* gave and what the API gives
LocationFound(ip, setex_ok, cached_location, client_ok, api) ==
    IF cached_location # None
    THEN [raises |-> FALSE, location |-> cached_location[1],
          attempts |-> 0, cache |-> cache]
    ELSE LocationFetched(ip, setex_ok,
                         _fetch_location_from_api(client_ok, api))

\* get_location, for a call during whose requests no time passes and no
\* other request runs: the result of the call and the key space after it.
\* get_ok and setex_ok: the GET and the SETEX run without an exception (each
\* is in a try of its own)
get_location(ip, get_ok, setex_ok, client_ok, api) ==
    IF IsLocalAddress(ip)
    THEN [raises |-> FALSE, location |-> TXT_LOCAL, attempts |-> 0,
          cache |-> cache]
    ELSE LocationFound(ip, setex_ok, CachedLocation(ip, get_ok), client_ok,
                       api)

-----------------------------------------------------------------------------
(* app/models/comment.py: the email columns of a comment *)

\* the digest of the email as it is
generate_email_hash_exact(email) == md5_hexdigest(email)

\* Comment.generate_email_hash
generate_email_hash(email) == md5_hexdigest(Strip(Lower(email)))

\* Comment.__init__: "if self.email and not self.email_hash:", so that
\* email_hash is made from email if none or an empty one was given
Comment__init__(email, email_hash) ==
    [email |-> email,
     email_hash |-> IF email # <<>> /\ (email_hash = None \/ email_hash = Some(<<>>))
                    THEN Some(generate_email_hash(email))
                    ELSE email_hash]

EMAIL_TEST == <<"t", "e", "s", "t", "@", "e", "x", "a", "m", "p", "l", "e",
                ".", "c", "o", "m">>

EMAIL_TEST_RAW == <<" ", "T", "e", "s", "t", "@", "E", "x", "a", "m", "p",
                    "l", "e", ".", "c", "o", "m", " ">>

EMAIL_OTHER == <<"o", "@", "x", ".", "y">>

\* the emails submitted: one email in three spellings, and another
Emails == {EMAIL_TEST, EMAIL_TEST_RAW, Lower(EMAIL_TEST_RAW), EMAIL_OTHER}

-----------------------------------------------------------------------------
(* app/services/comment_service.py: the write path *)

C_LINKS == <<"h", "t", "t", "p", ":", "/", "/", "a", " ", "h", "t", "t",
             "p", "s", ":", "/", "/", "b">>

\* submitted contents: plain, reading as a date, and with two blacklisted terms
Contents == {C_PLAIN, C_DATE, C_LINKS}

\* a content with every character html.escape replaces, between spaces
C_MARKUP == <<" ", "<", "b", ">", "a", "&", "b", "\"", "c", "'", "d", "<",
              "/", "b", ">", " ">>

\* a content that reads as escaped text already
C_ENTITY == <<"&", "a", "m", "p", ";", " ", "&", "l", "t", ";", "o", "k",
              "&", "g", "t", ";">>

\* a content with markup between a tab and a newline
C_TABBED == <<"\t", "<", "i", ">", "x", "<", "/", "i", ">", "\n">>

\* submitted contents with markup
MarkupContents == {C_MARKUP, C_ENTITY, C_TABBED}

\* the name and the user agent of the clients of the specifications
USERNAME_TEST == <<"T", "e", "s", "t", " ", "U", "s", "e", "r">>
UA_TEST == <<"M", "o", "z", "i", "l", "l", "a", "/", "5", ".", "0", " ",
             "(", "T", "e", "s", "t", ")">>

\* table[x] for an x the table holds, and the value computed otherwise
Memo(table, x, computed) == IF x \in DOMAIN table THEN table[x] ELSE computed

\* the values below are computed once for the inputs of the specifications
SanitizedContent ==
    [c \in Contents \cup MarkupContents |-> sanitize_content(c)]
SpamContent ==
    [c \in Contents \cup MarkupContents |-> check_spam_content(c)]
EmailHash == [e \in Emails |-> generate_email_hash(e)]
SystemType == [u \in {UA_TEST} |-> detect_system(u)]
InetValue ==
    [a \in {<<>>, TXT_LOCALHOST, IP_LOOPBACK, IP6_LOOPBACK, IP_PUBLIC} |->
        inet_in(a)]

Sanitized(content) ==
    Memo(SanitizedContent, content, sanitize_content(content))
IsSpam(content) == Memo(SpamContent, content, check_spam_content(content))
EmailHashOf(email) == Memo(EmailHash, email, generate_email_hash(email))
SystemTypeOf(user_agent) ==
    Memo(SystemType, user_agent, detect_system(user_agent))
InetOfText(ip_address) == Memo(InetValue, ip_address, inet_in(ip_address))

\* the lengths of the columns of Comment that are String(n)
LEN_PAGE == 200
LEN_EMAIL == 255
LEN_EMAIL_HASH == 32
LEN_USERNAME == 100
LEN_SYSTEM_TYPE == 50
LEN_LOCATION == 100

\* the texts of the specifications, and those of them the driver sends
InputTexts ==
    {<<>>, <<"p">>, <<"q">>, USERNAME_TEST, UA_TEST, TXT_LOCAL, TXT_UNKNOWN,
     TXT_CITY, TXT_COUNTRY \o <<" ">> \o TXT_CITY}
        \cup Emails \cup DOMAIN InetValue
        \cup {EmailHash[e] : e \in DOMAIN EmailHash}
        \cup {SystemType[u] : u \in DOMAIN SystemType}
        \cup {SanitizedContent[c] : c \in DOMAIN SanitizedContent}
SentTexts == {text \in InputTexts : ~Unsendable(text)}

\* the driver refuses one of the texts
AnyUnsendable(texts) == \E text \in texts \ SentTexts : Unsendable(text)

\* the parent lookup without its filter on is_deleted
ParentComment_any_row(parent_id) ==
    IF parent_id \in Ids THEN Some(parent_id) ELSE None

\* query(Comment).filter(id == parent_id, is_deleted == False).first()
ParentComment(parent_id) ==
    IF parent_id \in Ids /\ ~store[parent_id].is_deleted
    THEN Some(parent_id)
    ELSE None

\* the page test left out
ParentPageDiffers_never(parent_comment, page) == FALSE

\* parent_comment.page != comment_data.page
ParentPageDiffers(parent_comment, page) == store[parent_comment].page # page

\* the statement of a write at which the database fails, if the call gets
\* there: the lookup of the row (of the parent, in create_comment), the
\* statement of the write before it has run, the commit after the
\* statement has run, or the reload after the commit (db.refresh; in
\* delete_comment the read of comment.page, which the commit has expired)
DbFaults == {"none", "lookup", "statement", "commit", "refresh"}

\* the network and the redis of one call of get_location
Net(get_ok, setex_ok, client_ok, api) ==
    [get_ok |-> get_ok, setex_ok |-> setex_ok, client_ok |-> client_ok,
     api |-> api]

\* the row of Comment(...) at line 129, as the INSERT stores it; now is
\* now() of the INSERT, the time at which the transaction of the session
\* began; ip_address is the value of the type inet
CommentRow(comment_data, email_hash, content, address, user_agent, system_type, location, now) ==
    [page |-> Varchar(comment_data.page, LEN_PAGE),
     email |-> Varchar(comment_data.email, LEN_EMAIL),
     email_hash |-> Varchar(email_hash, LEN_EMAIL_HASH),
     username |-> Varchar(comment_data.username, LEN_USERNAME),
     content |-> content,
     parent_id |-> comment_data.parent_id,
     is_deleted |-> FALSE,
     created_at |-> now,
     updated_at |-> now,
     ip_address |-> address,
     user_agent |-> user_agent,
     system_type |-> Varchar(system_type, LEN_SYSTEM_TYPE),
     location |-> Varchar(location, LEN_LOCATION)]

\* a text of the row is too long for its column
ColumnTooLong(row) ==
    \E column \in {<<row.page, LEN_PAGE>>, <<row.email, LEN_EMAIL>>,
                   <<row.email_hash, LEN_EMAIL_HASH>>,
                   <<row.username, LEN_USERNAME>>,
                   <<row.system_type, LEN_SYSTEM_TYPE>>,
                   <<row.location, LEN_LOCATION>>} :
        VarcharFails(column[1], column[2])

\* the INSERT fails before it runs, and so before the sequence gives an
\* id: the driver does not send a text, the text of ip_address is no
\* literal of inet, or a text is too long for its column
InsertRefused(comment_data, email_hash, content, ip_address, address, user_agent, system_type, location) ==
    \/ AnyUnsendable({comment_data.page, comment_data.email, email_hash,
                      comment_data.username, content, ip_address, user_agent,
                      system_type, location})
    \/ address.kind = "error"
    \/ ColumnTooLong([page |-> comment_data.page, email |-> comment_data.email,
                      email_hash |-> email_hash,
                      username |-> comment_data.username,
                      system_type |-> system_type, location |-> location])

\* create_comment from its INSERT on: refused is whether the INSERT fails
\* before it runs, comment the row it stores
CreateInserted(comment_data, located, fault, refused, comment) ==
    IF located.raises \/ fault = "statement" \/ refused
    THEN [outcome |-> "DatabaseException", store |-> store,
          cache |-> located.cache, requests_sent |-> located.attempts]
    ELSE IF \/ fault = "commit"
            \/ ~(\/ comment_data.parent_id = None
                 \/ comment_data.parent_id[1] \in Ids)
    THEN [outcome |-> "DatabaseException",
          store |-> Append(store, RolledBack),
          cache |-> located.cache, requests_sent |-> located.attempts]
    \* the row is committed; rollback() in the except clause undoes
    \* nothing
    ELSE IF fault = "refresh"
    THEN [outcome |-> "DatabaseException",
          store |-> Append(store, comment), cache |-> located.cache,
          requests_sent |-> located.attempts]
    ELSE [outcome |-> "Created", store |-> Append(store, comment),
          cache |-> _clear_page_cache_in(located.cache, comment_data.page),
          requests_sent |-> located.attempts]

\* create_comment with what it has found: checks_parent is
\* "if comment_data.parent_id:", false for None and for 0; parent_comment
\* the row of the parent, if any; spam the verdict of check_spam_content
CreateChecked(comment_data, fault, checks_parent, parent_comment, spam, inserted) ==
    IF checks_parent /\ fault = "lookup"
    THEN [outcome |-> "DatabaseException", store |-> store,
          cache |-> cache, requests_sent |-> 0]
    ELSE IF checks_parent /\ parent_comment = None
    THEN [outcome |-> "NotFoundError", store |-> store, cache |-> cache,
          requests_sent |-> 0]
    ELSE IF checks_parent
            /\ ParentPageDiffers(parent_comment[1], comment_data.page)
    THEN [outcome |-> "ValidationException", store |-> store,
          cache |-> cache, requests_sent |-> 0]
    ELSE IF spam
    THEN [outcome |-> "ValidationException", store |-> store,
          cache |-> cache, requests_sent |-> 0]
    ELSE inserted

\* "if comment_data.parent_id:", false for None and for 0.  The SELECT of
\* the parent is the first statement of the session: it starts the
\* transaction, whose start is what now() returns in the INSERT
ChecksParent(comment_data) ==
    comment_data.parent_id # None /\ comment_data.parent_id[1] # 0

\* create_comment from line 129 on, with the values of the columns it
\* computes and the start of its transaction
CreateRowInserted(comment_data, ip_address, user_agent, located, fault, email_hash, content, address, system_type, now) ==
    CreateInserted(comment_data, located, fault,
        InsertRefused(comment_data, email_hash, content, ip_address,
                      address, user_agent, system_type, located.location),
        CommentRow(comment_data, email_hash, content, address.v,
                   user_agent, system_type, located.location, now))

\* create_comment from line 129 on, for a call whose transaction began at
\* `began` (None: it begins with the INSERT)
create_comment_located(comment_data, ip_address, user_agent, located, fault, began) ==
    CreateRowInserted(comment_data, ip_address, user_agent, located, fault,
        Comment__init__(comment_data.email,
                        Some(EmailHashOf(comment_data.email))).email_hash[1],
        Sanitized(comment_data.content), InetOfText(ip_address),
        SystemTypeOf(user_agent),
        IF began = None THEN clock ELSE began[1])

\* create_comment with the result of its call of get_location (line 126),
\* when no time has passed since its first statement: the outcome, the
\* table and the key space after it, and the number of requests sent to the
\* API.  A rejection comes before the lookup; an exception raised by the
\* lookup is turned into DatabaseException by the except clause.  An INSERT
\* that ran and was rolled back (the parent_id is the id of no row, which
\* ForeignKey("comments.id") forbids, or the commit failed) has taken an id
create_comment_with(comment_data, ip_address, user_agent, located, fault) ==
    CreateChecked(comment_data, fault, ChecksParent(comment_data),
        ParentComment(comment_data.parent_id[1]),
        IsSpam(comment_data.content),
        create_comment_located(comment_data, ip_address, user_agent, located,
                               fault, None))

\* a call of get_location that sent no request and wrote nothing
NotLocated ==
    [raises |-> FALSE, location |-> TXT_LOCAL, cache |-> cache,
     attempts |-> 0]

\* the outcome of the statements of create_comment before line 125:
\* "lookup" when the call goes on to look the location up
CreateRejection(comment_data, fault) ==
    CreateChecked(comment_data, fault, ChecksParent(comment_data),
        ParentComment(comment_data.parent_id[1]),
        IsSpam(comment_data.content),
        [outcome |-> "lookup", store |-> store, cache |-> cache,
         requests_sent |-> 0]).outcome

\* the outcome of create_comment for a client at ip_address, the table and
\* the key space after it, for a call during whose requests to the API no
\* time passes and no other request runs
create_comment(comment_data, ip_address, user_agent, net, fault) ==
    create_comment_with(comment_data, ip_address, user_agent,
        get_location(ip_address, net.get_ok, net.setex_ok, net.client_ok,
                     net.api),
        fault)

\* the call waits for the API at line 126: it is not rejected, and its
\* lookup sends a request
CreateSuspends(comment_data, ip_address, net, fault) ==
    /\ CreateRejection(comment_data, fault) = "lookup"
    /\ Suspends(ip_address, net.get_ok, net.client_ok)

\* the UPDATE of content fails before it runs: the driver does not send
\* the text
UpdateRefused(update_data) ==
    /\ update_data.content # None
    /\ AnyUnsendable({Sanitized(update_data.content[1])})

\* the table after the UPDATE of row comment_id
UpdatedStore(comment_id, update_data) ==
    [store EXCEPT
        ![comment_id].content =
            IF update_data.content = None THEN @
            ELSE Sanitized(update_data.content[1]),
        ![comment_id].is_deleted =
            IF update_data.is_deleted = None THEN @
            ELSE update_data.is_deleted[1]]

\* the failure of the database that a call of update_comment meets: lines
\* 368 and 375 send an UPDATE for a field that is not None, so that a call
\* with neither field sends no statement, and no statement of it fails
UpdateFault(update_data, fault) ==
    IF /\ fault = "statement"
       /\ update_data.content = None
       /\ update_data.is_deleted = None
    THEN "none"
    ELSE fault

\* update_comment with the verdict on its UPDATE and the table after it
UpdateWith(comment_id, fault, refused, updated) ==
    IF fault = "lookup"
    THEN [outcome |-> "DatabaseException", store |-> store, cache |-> cache]
    ELSE IF comment_id \notin Ids
    THEN [outcome |-> "NotFoundError", store |-> store, cache |-> cache]
    ELSE IF fault \in {"statement", "commit"} \/ refused
    THEN [outcome |-> "DatabaseException", store |-> store, cache |-> cache]
    ELSE IF fault = "refresh"
    THEN [outcome |-> "DatabaseException", store |-> updated,
          cache |-> cache]
    ELSE [outcome |-> "Updated", store |-> updated,
          cache |-> _clear_page_cache(store[comment_id].page)]

\* update_comment with a check that rejects, made after the lookup
UpdateChecked(comment_id, fault, rejected, outcome) ==
    IF fault # "lookup" /\ comment_id \in Ids /\ rejected
    THEN [outcome |-> "ValidationException", store |-> store,
          cache |-> cache]
    ELSE outcome

\* update_comment with the spam check of create_comment before its UPDATE
update_comment_checked(comment_id, update_data, fault) ==
    UpdateChecked(comment_id, fault,
        update_data.content # None /\ IsSpam(update_data.content[1]),
        UpdateWith(comment_id, UpdateFault(update_data, fault),
                   UpdateRefused(update_data),
                   UpdatedStore(comment_id, update_data)))

\* the outcome of update_comment, the table and the key space after it; a
\* failure of the refresh after the commit (line 382) is reported as
\* DatabaseException with the row updated.  The statements are texts of
\* SQL, so onupdate of updated_at has no part in them
update_comment(comment_id, update_data, fault) ==
    UpdateWith(comment_id, UpdateFault(update_data, fault),
               UpdateRefused(update_data),
               UpdatedStore(comment_id, update_data))

\* delete_comment with a lookup that sees only the rows not yet deleted
delete_comment_live_only(comment_id, fault) ==
    IF fault = "lookup"
    THEN [outcome |-> "DatabaseException", store |-> store, cache |-> cache]
    ELSE IF comment_id \notin Ids \/ store[comment_id].is_deleted
    THEN [outcome |-> "NotFoundError", store |-> store, cache |-> cache]
    ELSE IF fault \in {"statement", "commit"}
    THEN [outcome |-> "DatabaseException", store |-> store, cache |-> cache]
    ELSE IF fault = "refresh"
    THEN [outcome |-> "DatabaseException",
          store |-> [store EXCEPT ![comment_id].is_deleted = TRUE],
          cache |-> cache]
    ELSE [outcome |-> "Deleted",
          store |-> [store EXCEPT ![comment_id].is_deleted = TRUE],
          cache |-> _clear_page_cache(store[comment_id].page)]

\* the outcome of delete_comment, the table and the key space after it.
\* The session expires the row at the commit (sessionmaker, database.py,
\* leaves expire_on_commit at its default), so the read of comment.page at
\* line 411 reloads it; a failure of that reload is reported as
\* DatabaseException with the row deleted
delete_comment(comment_id, fault) ==
    IF fault = "lookup"
    THEN [outcome |-> "DatabaseException", store |-> store, cache |-> cache]
    ELSE IF comment_id \notin Ids
    THEN [outcome |-> "NotFoundError", store |-> store, cache |-> cache]
    ELSE IF fault \in {"statement", "commit"}
    THEN [outcome |-> "DatabaseException", store |-> store, cache |-> cache]
    ELSE IF fault = "refresh"
    THEN [outcome |-> "DatabaseException",
          store |-> [store EXCEPT ![comment_id].is_deleted = TRUE],
          cache |-> cache]
    ELSE [outcome |-> "Deleted",
          store |-> [store EXCEPT ![comment_id].is_deleted = TRUE],
          cache |-> _clear_page_cache(store[comment_id].page)]

-----------------------------------------------------------------------------
(* The redis server: sorted sets with an expiry *)

\* ZREMRANGEBYSCORE key min max; a sorted set left empty is removed
ZRemRangeByScore(z, key, min, max) ==
    IF key \notin DOMAIN z THEN z
    ELSE LET kept == {e \in z[key].members : ~(min <= e.score /\ e.score <= max)}
         IN  IF kept = {} THEN [k \in DOMAIN z \ {key} |-> z[k]]
             ELSE [z EXCEPT ![key].members = kept]

\* ZADD key score member: a member the set holds gets the new score; a new
\* key has no expiry (-1)
ZAdd(z, key, member, score) ==
    LET old == IF key \in DOMAIN z THEN z[key]
               ELSE [members |-> {}, expires |-> -1]
        members == {e \in old.members : e.member # member}
                       \cup {[member |-> member, score |-> score]}
    IN  [k \in DOMAIN z \cup {key} |->
            IF k = key THEN [old EXCEPT !.members = members] ELSE z[k]]

\* ZCARD key
ZCard(z, key) == IF key \in DOMAIN z THEN Cardinality(z[key].members) ELSE 0

\* EXPIRE key seconds
Expire(z, key, seconds) ==
    IF key \in DOMAIN z THEN [z EXCEPT ![key].expires = clock + seconds] ELSE z

-----------------------------------------------------------------------------
(* app/utils/rate_limiter.py *)

Max(a, b) == IF a > b THEN a ELSE b

\* a check that rejects when the count has reached the limit
ExceedsLimit_at_limit(current_count, limit) == current_count >= limit

\* "if current_count > limit"
ExceedsLimit(current_count, limit) == current_count > limit

\* an except clause that rejects the request
OnRedisError_reject(limit) ==
    [passed |-> FALSE,
     info |-> [limit |-> limit, remaining |-> 0, reset_time |-> 0,
               current_count |-> None, retry_after |-> None]]

\* "except Exception": the request is let through
OnRedisError(limit) ==
    [passed |-> TRUE,
     info |-> [limit |-> limit, remaining |-> limit, reset_time |-> 0,
               current_count |-> None, retry_after |-> None]]

\* (passed, rate_limit_info) of _check_rate_limit and the sorted sets after
\* it, for the current_time the call has read; redis_ok: the pipeline ran
\* without an exception. redis runs the commands of the pipeline as one
\* MULTI/EXEC transaction.
_check_rate_limit_at(current_time, key, limit, window, redis_ok) ==
    LET z1 == ZRemRangeByScore(zsets, key, 0, current_time - window)
        z2 == ZAdd(z1, key, Decimal(current_time), current_time)
        current_count == ZCard(z2, key)
        z3 == Expire(z2, key, window)
        remaining == Max(0, limit - current_count)
        reset_time == current_time + window
        rate_limit_info == [limit |-> limit, remaining |-> remaining,
                            reset_time |-> reset_time,
                            current_count |-> Some(current_count),
                            retry_after |-> None]
    IN  IF ~redis_ok
        THEN [passed |-> OnRedisError(limit).passed,
              info |-> OnRedisError(limit).info,
              zsets |-> zsets]
        ELSE IF ExceedsLimit(current_count, limit)
        THEN [passed |-> FALSE,
              info |-> [rate_limit_info EXCEPT !.retry_after = Some(window)],
              zsets |-> z3]
        ELSE [passed |-> TRUE, info |-> rate_limit_info, zsets |-> z3]

\* _check_rate_limit by a call that reads the time and runs the pipeline at
\* once
_check_rate_limit(key, limit, window, redis_ok) ==
    _check_rate_limit_at(clock, key, limit, window, redis_ok)

\* the keys of two clients
LimKeys == {<<"a">>, <<"b">>}

NoInfo == [limit |-> 0, remaining |-> 0, reset_time |-> 0,
           current_count |-> None, retry_after |-> None]

\* no check made yet by a limiter with this limit and window; earlier and
\* history hold the times of the checks that reached redis
LimIdle(limit, window) ==
    [pc |-> "idle", limit |-> limit, window |-> window, key |-> <<>>,
     time |-> 0, redis_ok |-> TRUE, passed |-> TRUE, info |-> NoInfo,
     earlier |-> <<>>, history |-> [k \in LimKeys |-> <<>>]]

LimiterInit ==
    lim \in {LimIdle(limit, window) :
                limit \in 1..MaxRate, window \in 1..MaxWindow}

LimiterCheck ==
    \E key \in LimKeys, redis_ok \in BOOLEAN :
        LET r == _check_rate_limit(key, lim.limit, lim.window, redis_ok)
        IN  /\ Len(lim.history[key]) < MaxChecks
            /\ zsets' = r.zsets
            /\ lim' = [lim EXCEPT
                          !.pc = "checked", !.key = key, !.time = clock,
                          !.redis_ok = redis_ok, !.passed = r.passed,
                          !.info = r.info, !.earlier = lim.history[key],
                          !.history[key] =
                              IF redis_ok THEN Append(@, clock) ELSE @]
            /\ UNCHANGED <<store, cache, clock, ticks, codec, gate, keyed, http,
                 helpers>>

\* a second passes; expired sorted sets are gone
LimiterTick ==
    /\ clock < MaxLimClock
    /\ clock' = clock + 1
    /\ zsets' = [k \in {k1 \in DOMAIN zsets : clock' < zsets[k1].expires} |->
                    zsets[k]]
    /\ UNCHANGED <<store, cache, ticks, lim, codec, gate, keyed, http,
                 helpers>>

\* the spans of time a client lets pass: a second, a second less than the
\* time to live of a list, and the time statistics live longer than a list
Waits == {1, CACHE_TTL - 1, STATS_TTL - CACHE_TTL}

\* time passes; expired keys are gone
Wait ==
    \E seconds \in Waits :
        /\ ticks < MaxWaits
        /\ clock' = clock + seconds
        /\ ticks' = ticks + 1
        /\ cache' = [k \in {k1 \in DOMAIN cache : clock' < cache[k1].expires}
                        |-> cache[k]]
        /\ UNCHANGED <<store, zsets, lim, codec, gate, keyed, http, helpers>>

-----------------------------------------------------------------------------
(* A client's sweep of one listing *)

\* the ids of the items of a response
ItemIds(result) == [k \in 1..Len(result.comments) |-> result.comments[k].id]

\* the ids a client collects that calls get_comments with `cursor` and then
\* with each next_cursor it is given, until has_next is false; done: the
\* sweep ended with has_next false (and not with an error response)
RECURSIVE Sweep(_, _)
\* the ids of the response and those of the rest of the sweep
SweepOn(ids, rest) == [done |-> rest.done, ids |-> ids \o rest.ids]

\* the sweep from the response r on
SweepFrom(query, r) ==
    IF r.outcome # "ok" THEN [done |-> FALSE, ids |-> <<>>]
    ELSE IF ~r.result.has_next
    THEN [done |-> TRUE, ids |-> ItemIds(r.result)]
    ELSE IF r.result.next_cursor = None
    THEN [done |-> FALSE, ids |-> ItemIds(r.result)]
    ELSE SweepOn(ItemIds(r.result), Sweep(query, r.result.next_cursor[1]))

Sweep(query, cursor) ==
    SweepFrom(query,
              get_comments([page |-> query.page, cursor |-> cursor,
                            limit |-> query.limit, sort |-> query.sort,
                            order |-> query.order]))

-----------------------------------------------------------------------------
(* Requests *)

Pages == {<<"p">>, <<"q">>}

\* parent_id of a request: absent, negative, 0, a row, or no row
ParentIds == {None} \cup {Some(n) : n \in -1..MaxComments}

Limits == 1..MaxLimit
Sorts == SortColumns
Orders == {ASC, DESC}

Queries == [page : Pages, limit : Limits, sort : Sorts, order : Orders]

\* the queries of GET /api/comments with the default sort and order
DefaultQueries ==
    [page : Pages, limit : Limits, sort : {COL_CREATED_AT}, order : {DESC}]

UpdateData ==
    [content : {None, Some(C_DATE)},
     is_deleted : {None, Some(TRUE), Some(FALSE)}]

HasPrefix(s, prefix) ==
    Len(s) >= Len(prefix) /\ SubSeq(s, 1, Len(prefix)) = prefix

\* the keys of the read queries; the keys of LocationService are apart
QueryKeys(c) == {k \in DOMAIN c : ~HasPrefix(k, TXT_LOCATION \o <<":">>)}

CacheFits(c) == Cardinality(QueryKeys(c)) <= MaxCacheKeys

\* the requests of create_comment
CreateRequests ==
    [page : Pages, email : {EMAIL_TEST}, username : {USERNAME_TEST},
     content : Contents, parent_id : ParentIds]

\* the addresses of the clients whose create_comment takes one step: the
\* loopback addresses, for which get_location returns at line 69, so that
\* the call never hands control back (the redis and database clients are
\* synchronous)
CreateIps == {IP_LOOPBACK, IP6_LOOPBACK}

\* the addresses of the clients of a call seen as a function of the state
ClientAddresses == {IP_LOOPBACK, IP_PUBLIC}

CityBody ==
    ApiBody(PyBool(TRUE), "dict", PyStr(TXT_COUNTRY), PyStr(TXT_COUNTRY),
            PyStr(TXT_CITY))

\* redis and the client are there, and the API gives the same answer to
\* every request
NetAnswers(answer) ==
    Net(TRUE, TRUE, TRUE, [n \in 1..API_ATTEMPTS |-> answer])

\* the API answers with a country and a city, or every request times out
CreateNets == {NetAnswers(ApiOk(CityBody)), NetAnswers(ApiTimeout)}

\* the network of a call that sends no request
NoNet == Net(TRUE, TRUE, TRUE, <<>>)

\* a write with the result r: its table and key space are those after it
Written(r) ==
    /\ Len(r.store) <= MaxComments
    /\ store' = r.store
    /\ cache' = r.cache
    /\ UNCHANGED <<clock, ticks, zsets, lim, codec, gate, keyed, http,
                   helpers>>

\* a read with the result r: its key space is the one after it
Answered(r) ==
    /\ CacheFits(r.cache)
    /\ cache' = r.cache
    /\ UNCHANGED <<store, clock, ticks, zsets, lim, codec, gate, keyed, http,
                   helpers>>

\* create_comment for one of the requests, for a client at one of the
\* addresses ips, with the database failing in one of the ways faults; the
\* call sends no request to the API, and so runs from its first statement to
\* its last with nothing in between
CreateCommentFrom(requests, ips, faults) ==
    \E comment_data \in requests, address \in ips, fault \in faults :
        /\ ~CreateSuspends(comment_data, address, NoNet, fault)
        /\ Written(create_comment(comment_data, address, UA_TEST, NoNet,
                                  fault))

CreateComment == CreateCommentFrom(CreateRequests, CreateIps, DbFaults)

\* the failures of the database in the specifications of the cached reads:
\* the ones that leave a trace, in the sequence (a failing commit) or in the
\* table (a failing refresh, after the commit)
ReadFaults == {"none", "commit", "refresh"}

CreateListed == CreateCommentFrom(CreateRequests, {IP_LOOPBACK}, ReadFaults)

\* the requests with the plain content
PlainRequests == {r \in CreateRequests : r.content = C_PLAIN}

\* the create_comment of the specification of the long waits: the database
\* does not fail
CreatePlain == CreateCommentFrom(PlainRequests, {IP_LOOPBACK}, {"none"})

\* update_comment with the database failing in one of the ways faults
UpdateCommentWith(faults) ==
    \E comment_id \in 1..MaxComments, update_data \in UpdateData,
       fault \in faults :
        Written(update_comment(comment_id, update_data, fault))

UpdateComment == UpdateCommentWith(DbFaults)

\* delete_comment with the database failing in one of the ways faults
DeleteCommentWith(faults) ==
    \E comment_id \in 1..MaxComments, fault \in faults :
        Written(delete_comment(comment_id, fault))

DeleteComment == DeleteCommentWith(DbFaults)

\* the writes of the specification of the cached reads
UpdateListed == UpdateCommentWith(ReadFaults)
DeleteListed == DeleteCommentWith(ReadFaults)

GetReplies ==
    \E parent_id \in 1..MaxComments, limit \in Limits :
        Answered(get_replies([parent_id |-> parent_id, cursor |-> EmptyText,
                              limit |-> limit]))

GetPageStats == \E page \in Pages : Answered(get_page_stats(page))

\* the cursors get_comments can have issued for the rows of the table
IssuedCursors(sort) ==
    {_encode_cursor(ColumnValue(i, sort), i) : i \in Ids}

GetComments ==
    \E q \in DefaultQueries :
        \E cursor \in {EmptyText} \cup IssuedCursors(q.sort) :
            Answered(get_comments([page |-> q.page, cursor |-> cursor,
                                   limit |-> q.limit, sort |-> q.sort,
                                   order |-> q.order]))

\* time passes; expired keys are gone
Tick ==
    /\ ticks < MaxTicks
    /\ clock' = clock + 1
    /\ ticks' = ticks + 1
    /\ cache' = [k \in {k1 \in DOMAIN cache : clock' < cache[k1].expires} |->
                    cache[k]]
    /\ UNCHANGED <<store, zsets, lim, codec, gate, keyed, http,
                 helpers>>

-----------------------------------------------------------------------------
(* The cache keys of the read queries, on their own *)

\* the texts of at most MaxPartLen characters over a letter and the separator
KeyTexts == UNION {[1..n -> {"a", ":"}] : n \in 0..MaxPartLen}

\* the queries of GET /api/comments and GET /api/comments/{id}/replies, with
\* the cursor as the text the client sent
KeyQueries ==
    [op : {"get_comments"}, page : KeyTexts \ {<<>>}, parent_id : {0},
     cursor : KeyTexts, limit : Limits, sort : {COL_CREATED_AT, COL_ID},
     order : {DESC}]
        \cup [op : {"get_replies"}, page : {<<>>}, parent_id : 1..MaxComments,
              cursor : KeyTexts, limit : Limits, sort : {COL_CREATED_AT},
              order : {ASC}]

\* cache_key of get_comments and of get_replies
QueryCacheKey(q) ==
    IF q.op = "get_comments"
    THEN generate_cache_key(TXT_COMMENTS_CURSOR,
             <<q.page, q.cursor, Decimal(q.limit), q.sort, q.order, TXT_TRUE>>)
    ELSE generate_cache_key(TXT_REPLIES,
             <<Decimal(q.parent_id), q.cursor, Decimal(q.limit)>>)

KeyedIdle == [pc |-> "idle", key |-> <<>>]

KeyedInit == keyed \in [pc : {"query"}, query : KeyQueries, key : {<<>>}]

\* the read builds its cache key
KeyedGenerate ==
    /\ keyed.pc = "query"
    /\ keyed' = [keyed EXCEPT !.pc = "keyed",
                              !.key = QueryCacheKey(keyed.query)]
    /\ UNCHANGED <<store, cache, clock, ticks, zsets, lim, codec, gate, http,
                 helpers>>

-----------------------------------------------------------------------------
(* app/main.py, app/api/comments.py: POST /api/comments *)

\* RateLimitException: status_code 429, headers {"Retry-After": "60"}
RETRY_AFTER == <<"6", "0">>

RateLimitException == [status_code |-> 429, retry_after |-> Some(RETRY_AFTER)]

\* HTTPException(status_code=..., detail=...): no headers
HTTPException(status_code) ==
    [status_code |-> status_code, retry_after |-> None]

\* JSONResponse(status_code=exc.status_code, content=...): the headers of the
\* exception are not passed on
http_exception_handler(exc) ==
    [status |-> exc.status_code, retry_after |-> None]

\* rate_limit_middleware up to call_next.  Its first check,
\* check_global_rate_limit, evaluates settings.GLOBAL_RATE_LIMIT; Settings
\* defines IP_RATE_LIMIT only and ignores extra fields, so the attribute
\* access raises AttributeError before _check_rate_limit is called.  The
\* middleware catches it with "except Exception" and hands the request on:
\* no sorted set is touched and no RateLimitException is raised.
rate_limit_middleware == "call_next"

TXT_RATE_LIMIT == <<"r", "a", "t", "e", "_", "l", "i", "m", "i", "t">>
TXT_COMMENT == <<"c", "o", "m", "m", "e", "n", "t">>

\* f"rate_limit:{limit_type}:{identifier}"
_get_rate_limit_key(identifier, limit_type) ==
    Join(<<TXT_RATE_LIMIT, limit_type, identifier>>, <<":">>)

\* "5分钟内最多3次"
COMMENT_RATE_LIMIT == 3
COMMENT_RATE_WINDOW == 300

\* check_comment_rate_limit(request): a sliding-window check keyed by the
\* client, which raises the rate-limit error when the check fails
RaisesUnlessPassed(r) ==
    [raises |-> IF r.passed THEN None ELSE Some(RateLimitException),
     zsets |-> r.zsets]

check_comment_rate_limit(ip, redis_ok) ==
    RaisesUnlessPassed(
        _check_rate_limit(_get_rate_limit_key(ip, TXT_COMMENT),
                          COMMENT_RATE_LIMIT, COMMENT_RATE_WINDOW, redis_ok))

\* the except clauses of the endpoint: the status of the HTTPException raised
\* for an outcome of the service
EndpointStatus(outcome) ==
    CASE outcome = "ValidationException" -> 400
      [] outcome = "NotFoundError" -> 404
      [] outcome = "DatabaseException" -> 500
      [] OTHER -> 500

\* the body of the endpoint create_comment after its check of the rate
\* limit, with the result r of the service: the response, whether a limiter
\* rejected the request, and the table, key space, sorted sets and counter
\* of the decorator after it
EndpointResponse(checked, r, counter) ==
    IF checked.raises # None
    \* RateLimitException is none of the three classes named, so
    \* "except Exception" turns it into HTTPException(500)
    THEN [response |-> http_exception_handler(HTTPException(500)),
          limited |-> TRUE, outcome |-> "RateLimitException",
          store |-> store, cache |-> cache, zsets |-> checked.zsets,
          window |-> counter]
    ELSE IF r.outcome = "Created"
    THEN [response |-> [status |-> 201, retry_after |-> None],
          limited |-> FALSE, outcome |-> r.outcome,
          store |-> r.store, cache |-> r.cache, zsets |-> checked.zsets,
          window |-> counter]
    ELSE [response |->
              http_exception_handler(
                  HTTPException(EndpointStatus(r.outcome))),
          limited |-> FALSE, outcome |-> r.outcome,
          store |-> r.store, cache |-> r.cache, zsets |-> checked.zsets,
          window |-> counter]

\* general_exception_handler, which answers for an exception that leaves a
\* middleware
general_exception_handler == [status |-> 500, retry_after |-> None]

\* settings.RATE_LIMIT_ENABLED
RATE_LIMIT_ENABLED == TRUE

\* @limiter.limit("10/minute"): 10 requests in a window of 60 seconds
SLOWAPI_LIMIT == 10
SLOWAPI_WINDOW == 60

\* the counter of the limit in Redis, a key that expires: no key
NoHits == [count |-> 0, expires |-> 0]

\* the counter after INCRBY key 1, with EXPIRE key 60 when the key is new
\* (the fixed window, the default strategy of slowapi): the window begins
\* with its first request and is gone 60 seconds later
HitAt(counter, now, expiry) ==
    IF counter.count = 0 \/ now >= counter.expires
    THEN [count |-> 1, expires |-> now + expiry]
    ELSE [counter EXCEPT !.count = @ + 1]

\* the check the decorator makes before it calls the endpoint, keyed by the
\* address of the peer: the request counts, and it passes while the counter
\* is within the limit.  An exception of the storage (storage_ok false) is
\* not swallowed
LimitChecked(counter, hit, storage_ok) ==
    IF ~RATE_LIMIT_ENABLED THEN [raises |-> "none", window |-> counter]
    ELSE IF ~storage_ok THEN [raises |-> "Exception", window |-> counter]
    ELSE [raises |-> IF hit.count <= SLOWAPI_LIMIT THEN "none"
                     ELSE "RateLimitExceeded",
          window |-> hit]

limiter_limit(counter, storage_ok) ==
    LimitChecked(counter, HitAt(counter, clock, SLOWAPI_WINDOW), storage_ok)

\* rate_limit_handler(request, exc), the handler registered for
\* RateLimitExceeded: it reads exc.retry_after.  Where the exception of the
\* installed slowapi has no such attribute the AttributeError leaves the
\* handler, and general_exception_handler answers
rate_limit_handler ==
    IF env.retry_after = None THEN general_exception_handler
    ELSE [status |-> 429, retry_after |-> env.retry_after]

\* the decorated endpoint: the check of the decorator, and the body when it
\* passes
LimitedEndpoint(checked, ip, user_agent, comment_data, net, fault, redis_ok) ==
    IF checked.raises = "RateLimitExceeded"
    THEN [response |-> rate_limit_handler, limited |-> TRUE,
          outcome |-> "RateLimitExceeded",
          store |-> store, cache |-> cache, zsets |-> zsets,
          window |-> checked.window]
    ELSE IF checked.raises = "Exception"
    THEN [response |-> general_exception_handler, limited |-> FALSE,
          outcome |-> "Exception",
          store |-> store, cache |-> cache, zsets |-> zsets,
          window |-> checked.window]
    ELSE EndpointResponse(check_comment_rate_limit(ip, redis_ok),
             create_comment(comment_data, ip, user_agent, net, fault),
             checked.window)

\* the endpoint create_comment with its decorator
api_create_comment(ip, user_agent, comment_data, net, fault, redis_ok, storage_ok) ==
    LimitedEndpoint(limiter_limit(http.window, storage_ok), ip, user_agent,
                    comment_data, net, fault, redis_ok)

\* the application on POST /api/comments
post_comments(ip, user_agent, comment_data, net, fault, redis_ok, storage_ok) ==
    IF rate_limit_middleware = "call_next"
    THEN api_create_comment(ip, user_agent, comment_data, net, fault,
                            redis_ok, storage_ok)
    ELSE [response |-> general_exception_handler, limited |-> TRUE,
          outcome |-> "RateLimitException",
          store |-> store, cache |-> cache, zsets |-> zsets,
          window |-> http.window]

\* the address of a client: a local one, for which create_comment sends no
\* request to the API, so that the endpoint runs from its first statement
\* to its last with no other request in between
ClientIps == {IP_LOOPBACK}

\* the comments a client posts: clean or spam, top-level or a reply to row 1
HttpRequests ==
    [page : {<<"p">>}, email : {EMAIL_TEST}, username : {USERNAME_TEST},
     content : {C_PLAIN, C_LINKS}, parent_id : {None, Some(1)}]

\* no request answered yet
HttpIdle ==
    [pc |-> "idle", response |-> [status |-> 0, retry_after |-> None],
     limited |-> FALSE, outcome |-> "none", rows |-> 0, window |-> NoHits]

\* the request is answered with r
HttpAnswered(r) ==
    /\ Len(r.store) <= MaxComments
    /\ store' = r.store
    /\ cache' = r.cache
    /\ zsets' = r.zsets
    /\ http' = [pc |-> "answered", response |-> r.response,
                limited |-> r.limited, outcome |-> r.outcome,
                rows |-> Cardinality(Ids), window |-> r.window]
    /\ UNCHANGED <<clock, ticks, lim, codec, gate, keyed, helpers>>

\* one POST /api/comments, from the middleware to the response; rows is the
\* number of rows the request found
HttpPost ==
    /\ http.window.count < MaxHits
    /\ \E ip \in ClientIps, comment_data \in HttpRequests,
          fault \in DbFaults, redis_ok \in BOOLEAN, storage_ok \in BOOLEAN :
           HttpAnswered(post_comments(ip, UA_TEST, comment_data, NoNet,
                                      fault, redis_ok, storage_ok))

-----------------------------------------------------------------------------
(* create_comment and the location of its client: the calls that wait for
   the API.  The redis and database clients are synchronous, so that a call
   hands control back at "await client.get(url)" (user_info.py, line 111)
   and nowhere else; what runs between two such points is one step *)

\* the addresses looked up: none, the loopback address and a public one
LocationIps == {<<>>, IP_LOOPBACK, IP_PUBLIC}

\* the JSON bodies of the API: no object, success false, info null, a
\* country twice and a city, a country that is a number, and a country that
\* is true
ApiBodies ==
    {JsonList,
     ApiBody(PyBool(FALSE), "absent", PyNone, PyNone, PyNone),
     ApiBody(PyBool(TRUE), "null", PyNone, PyNone, PyNone),
     CityBody,
     ApiBody(PyInt(1), "dict", PyInt(1), PyStr(TXT_UNKNOWN), PyStr(<<>>)),
     ApiBody(PyBool(TRUE), "dict", PyBool(TRUE), PyStr(TXT_COUNTRY),
             PyStr(<<>>))}

ApiAnswers ==
    {ApiTimeout, ApiError, ApiStatus, ApiMalformed}
        \cup {ApiOk(data) : data \in ApiBodies}

\* the strings get_location can return
Locations ==
    {TXT_LOCAL, TXT_UNKNOWN} \cup
        {_parse_location_response(data) : data \in ApiBodies}

NoRequest ==
    [page |-> <<>>, email |-> <<>>, username |-> <<>>, content |-> C_PLAIN,
     parent_id |-> None]

\* the calls of create_comment that can be under way at a time
Callers == 1..MaxLookups

\* no call under way.  Of a call: began is the start of its transaction, if
\* it has one; attempts the number of requests it has sent to the API and
\* answers what they brought; looked_up whether it has called get_location,
\* raises and location what get_location gave
NoCall ==
    [pc |-> "idle", comment_data |-> NoRequest, ip |-> <<>>, began |-> None,
     attempts |-> 0, answers |-> <<>>, looked_up |-> FALSE,
     raises |-> FALSE, location |-> <<>>, outcome |-> "none"]

LocIdle == [i \in Callers |-> NoCall]

\* the call i has returned or raised
CallReturned(i, comment_data, ip_address, r, looked_up, located, answers) ==
    /\ store' = r.store
    /\ cache' = r.cache
    /\ loc' = [loc EXCEPT
                  ![i].pc = "done", ![i].outcome = r.outcome,
                  ![i].comment_data = comment_data, ![i].ip = ip_address,
                  ![i].looked_up = looked_up,
                  ![i].raises = looked_up /\ located.raises,
                  ![i].location = IF looked_up THEN located.location
                                  ELSE <<>>,
                  ![i].attempts = IF looked_up THEN located.attempts ELSE 0,
                  ![i].answers = answers]

\* the call i from its first statement to its first request to the API
\* (the SELECT of the parent has begun its transaction) or, when it sends
\* none, to its end; at most `rows` ids are given
CreateBegun(i, comment_data, ip_address, net, fault, rows) ==
    IF CreateSuspends(comment_data, ip_address, net, fault)
    THEN /\ loc' = [loc EXCEPT
                       ![i] = [NoCall EXCEPT
                                  !.pc = "await",
                                  !.comment_data = comment_data,
                                  !.ip = ip_address,
                                  !.began = IF ChecksParent(comment_data)
                                            THEN Some(clock) ELSE None,
                                  !.attempts = 1, !.looked_up = TRUE]]
         /\ UNCHANGED <<store, cache>>
    ELSE /\ Len(create_comment(comment_data, ip_address, UA_TEST, net,
                               fault).store) <= rows
         /\ CallReturned(i, comment_data, ip_address,
                create_comment(comment_data, ip_address, UA_TEST, net,
                               fault),
                CreateRejection(comment_data, fault) = "lookup",
                get_location(ip_address, net.get_ok, net.setex_ok,
                             net.client_ok, net.api), <<>>)

\* what redis and the client do in the first step of a call
BeginNets == {Net(get_ok, setex_ok, client_ok, <<>>) :
                 get_ok \in BOOLEAN, setex_ok \in BOOLEAN,
                 client_ok \in BOOLEAN}

CreateBegin(i, requests, ips, nets, faults, rows) ==
    /\ loc[i].pc = "idle"
    /\ \E comment_data \in requests, ip_address \in ips, net \in nets,
          fault \in faults :
           CreateBegun(i, comment_data, ip_address, net, fault, rows)
    /\ UNCHANGED <<clock, ticks, zsets, lim, codec, gate, keyed, http,
                   env, ipreq, txn, steppers>>

\* the call i with the location its lookup returns: SETEX, Comment(...), the
\* INSERT with the commit, and the cache invalidation
CreateLocatedBy(i, located, fault, answers, rows) ==
    /\ Len(create_comment_located(loc[i].comment_data, loc[i].ip, UA_TEST,
                                  located, fault, loc[i].began).store) <= rows
    /\ CallReturned(i, loc[i].comment_data, loc[i].ip,
           create_comment_located(loc[i].comment_data, loc[i].ip, UA_TEST,
                                  located, fault, loc[i].began),
           TRUE, located, answers)

\* the call i with the answer to its request: the next request, or the rest
\* of the call
CreateAnswered(i, a, setex_ok, fault, answers, rows) ==
    IF a.next = "request"
    THEN /\ loc' = [loc EXCEPT ![i].attempts = @ + 1,
                               ![i].answers = answers]
         /\ UNCHANGED <<store, cache>>
    ELSE CreateLocatedBy(i,
             LocationFetched(loc[i].ip, setex_ok,
                 [raises |-> FALSE, location |-> a.location,
                  attempts |-> loc[i].attempts]),
             fault, answers, rows)

\* an answer of the API, or the end of the time allowed for it, reaches the
\* call i
CreateResume(i, answers, faults, rows) ==
    /\ loc[i].pc = "await"
    /\ \E answer \in answers, setex_ok \in BOOLEAN, fault \in faults :
           CreateAnswered(i,
               RequestAnswered(loc[i].attempts - 1, answer), setex_ok,
               fault, Append(loc[i].answers, answer.kind), rows)
    /\ UNCHANGED <<clock, ticks, zsets, lim, codec, gate, keyed, http,
                   env, ipreq, txn, steppers>>

\* the response of the call i is out
CreateEnd(i) ==
    /\ loc[i].pc = "done"
    /\ loc' = [loc EXCEPT ![i] = NoCall]
    /\ UNCHANGED <<store, cache, clock, ticks, zsets, lim, codec, gate,
                   keyed, http, env, ipreq, txn, steppers>>

\* the requests, the addresses and the API of the calls followed: every
\* request, address and answer for the first, a top-level comment from the
\* public address for the others
LocRequests(i) ==
    IF i = 1 THEN HttpRequests
    ELSE {r \in HttpRequests : r.content = C_PLAIN /\ r.parent_id = None}

LocIps(i) == IF i = 1 THEN LocationIps ELSE {IP_PUBLIC}

LocAnswers(i) ==
    IF i = 1 THEN ApiAnswers ELSE {ApiTimeout, ApiOk(CityBody)}

\* the cache may hold a location of the public address
LocationInit ==
    /\ loc = LocIdle
    /\ cache \in {<<>>,
                  _get_cache_key(IP_PUBLIC) :>
                      [value |-> TXT_CITY, expires |-> VORE_API_CACHE_TTL]}

LocBegin ==
    \E i \in Callers :
        CreateBegin(i, LocRequests(i), LocIps(i), BeginNets, {"none"},
                    MaxComments)

LocAnswer ==
    \E i \in Callers :
        CreateResume(i, LocAnswers(i), {"none"}, MaxComments)

LocEnd == \E i \in Callers : CreateEnd(i)

-----------------------------------------------------------------------------
(* create_comment and the email columns of its row *)

\* create_comment for the emails submitted (lines 131-132)
EmailCreate ==
    \E comment_data \in [page : {<<"p">>}, email : Emails,
                         username : {USERNAME_TEST},
                         content : {C_PLAIN, C_LINKS},
                         parent_id : {None, Some(1)}],
       address \in CreateIps :
        Written(create_comment(comment_data, address, UA_TEST, NoNet, "none"))

-----------------------------------------------------------------------------
(* app/utils/user_info.py: IPHelper, and the client IP of a request *)

\* s.split(sep) for a separator of one character
RECURSIVE SplitOn(_, _)
SplitOn(s, sep) ==
    IF \E i \in 1..Len(s) : s[i] = sep
    THEN LET i == CHOOSE k \in 1..Len(s) :
                      s[k] = sep /\ \A j \in 1..(k - 1) : s[j] # sep
         IN  <<SubSeq(s, 1, i - 1)>> \o SplitOn(SubSeq(s, i + 1, Len(s)), sep)
    ELSE <<s>>

\* an octet of a dotted quad: one to three digits, no leading zero, at most 255
IsOctet(part) ==
    /\ AllDigits(part)
    /\ Len(part) <= 3
    /\ (Len(part) > 1 => part[1] # "0")
    /\ DecimalValue(part) <= 255

\* IPv4Address(address): four octets between points
IPv4Address(address) ==
    LET octets == SplitOn(address, ".")
    IN  IF Len(octets) = 4 /\ \A k \in 1..4 : IsOctet(octets[k])
        THEN Some([version |-> 4,
                   octets |-> [k \in 1..4 |-> DecimalValue(octets[k])]])
        ELSE None

\* a group of an IPv6 address: one to four hexadecimal digits
IsHextet(part) ==
    /\ Len(part) \in 1..4
    /\ \A i \in 1..Len(part) : IsHexDigit(part[i])

\* int(hextet_str, 16)
RECURSIVE HextetValue(_)
HextetValue(part) ==
    IF Len(part) = 0 THEN 0
    ELSE (16 * HextetValue(SubSeq(part, 1, Len(part) - 1)))
             + HexValue(part[Len(part)])

\* the address of the first parts_hi parts, zeros, and the last parts_lo
\* parts; a part that is no group raises
IPv6Words(parts, parts_hi, parts_lo) ==
    IF /\ \A k \in 1..parts_hi : IsHextet(parts[k])
       /\ \A k \in 1..parts_lo : IsHextet(parts[(Len(parts) - parts_lo) + k])
    THEN Some([version |-> 6,
               words |-> [k \in 1..8 |->
                             IF k <= parts_hi THEN HextetValue(parts[k])
                             ELSE IF k > 8 - parts_lo
                             THEN HextetValue(parts[Len(parts) - (8 - k)])
                             ELSE 0]])
    ELSE None

\* the parts before and after the "::" at part number skip, where an empty
\* first or last part is the other half of a "::" at that end
IPv6Skipped(parts, skip, parts_hi, parts_lo) ==
    IF \/ parts[1] = <<>> /\ parts_hi # 0
       \/ parts[Len(parts)] = <<>> /\ parts_lo # 0
       \/ 8 - (parts_hi + parts_lo) < 1
    THEN None
    ELSE IPv6Words(parts, parts_hi, parts_lo)

\* the address of the parts between the colons; skips are the empty parts
\* that are neither the first nor the last
IPv6Parts(parts, skips) ==
    IF Len(parts) > 9 \/ Cardinality(skips) > 1 THEN None
    ELSE IF skips # {}
    THEN IPv6Skipped(parts, Least(skips),
                     IF parts[1] = <<>> THEN Least(skips) - 2
                     ELSE Least(skips) - 1,
                     IF parts[Len(parts)] = <<>>
                     THEN (Len(parts) - Least(skips)) - 1
                     ELSE Len(parts) - Least(skips))
    ELSE IF Len(parts) # 8 \/ parts[1] = <<>> \/ parts[8] = <<>> THEN None
    ELSE IPv6Words(parts, 8, 0)

IPv6Split(parts) ==
    IPv6Parts(parts, {i \in 2..(Len(parts) - 1) : parts[i] = <<>>})

\* an IPv4 address in the last part is two groups
IPv6Suffixed(parts, suffix) ==
    IF suffix = None THEN None
    ELSE IPv6Split(SubSeq(parts, 1, Len(parts) - 1)
                       \o <<Hex((suffix[1].octets[1] * 256)
                                    + suffix[1].octets[2]),
                            Hex((suffix[1].octets[3] * 256)
                                    + suffix[1].octets[4])>>)

\* _ip_int_from_string of the text before the scope id
IPv6FromParts(ip_str, parts) ==
    IF ip_str = <<>> \/ Len(parts) < 3 THEN None
    ELSE IF \E i \in 1..Len(parts[Len(parts)]) : parts[Len(parts)][i] = "."
    THEN IPv6Suffixed(parts, IPv4Address(parts[Len(parts)]))
    ELSE IPv6Split(parts)

\* the positions of "%" in a text
Percents(s) == {i \in 1..Len(s) : s[i] = "%"}

\* IPv6Address(address): groups between colons, one "::" for a run of zero
\* groups, an IPv4 address for the last two, and a scope id after "%",
\* which is not empty and holds no "%"
IPv6Scoped(address, percents) ==
    IF percents = {}
    THEN IPv6FromParts(address, SplitOn(address, ":"))
    ELSE IF Cardinality(percents) > 1 \/ Least(percents) = Len(address)
    THEN None
    ELSE IPv6FromParts(SubSeq(address, 1, Least(percents) - 1),
                       SplitOn(SubSeq(address, 1, Least(percents) - 1), ":"))

IPv6Address(address) ==
    IF \E i \in 1..Len(address) : address[i] = "/" THEN None
    ELSE IPv6Scoped(address, Percents(address))

\* ipaddress.ip_address(ip): the IPv4 address of the text, or else its IPv6
\* address; None for the ValueError of a text that is neither
ip_address(ip) ==
    IF IPv4Address(ip) # None THEN IPv4Address(ip) ELSE IPv6Address(ip)

\* the IPv4 address is in one of the networks of
\* _IPv4Constants._private_networks
IsPrivateV4(o) ==
    \/ o[1] = 0
    \/ o[1] = 10
    \/ o[1] = 127
    \/ o[1] = 169 /\ o[2] = 254
    \/ o[1] = 172 /\ o[2] \in 16..31
    \/ o[1] = 192 /\ o[2] = 0 /\ o[3] = 0 /\ o[4] \in 0..7
    \/ o[1] = 192 /\ o[2] = 0 /\ o[3] = 0 /\ o[4] \in 170..171
    \/ o[1] = 192 /\ o[2] = 0 /\ o[3] = 2
    \/ o[1] = 192 /\ o[2] = 168
    \/ o[1] = 198 /\ o[2] \in 18..19
    \/ o[1] = 198 /\ o[2] = 51 /\ o[3] = 100
    \/ o[1] = 203 /\ o[2] = 0 /\ o[3] = 113
    \/ o[1] >= 240

\* the IPv6 address is in one of the networks of
\* _IPv6Constants._private_networks: ::1/128, ::/128, ::ffff:0:0/96,
\* 100::/64, 2001::/23, 2001:2::/48, 2001:db8::/32, 2001:10::/28, fc00::/7
\* and fe80::/10
IsPrivateV6(w) ==
    \/ (\A k \in 1..7 : w[k] = 0) /\ w[8] \in {0, 1}
    \/ (\A k \in 1..5 : w[k] = 0) /\ w[6] = 65535
    \/ w[1] = 256 /\ w[2] = 0 /\ w[3] = 0 /\ w[4] = 0
    \/ w[1] = 8193 /\ w[2] < 512
    \/ w[1] = 8193 /\ w[2] = 2 /\ w[3] = 0
    \/ w[1] = 8193 /\ w[2] = 3512
    \/ w[1] = 8193 /\ w[2] \in 16..31
    \/ w[1] \in 64512..65023
    \/ w[1] \in 65152..65215

\* IPv4Address.is_private, IPv6Address.is_private: an IPv6 address that
\* maps an IPv4 address (::ffff:a.b.c.d) is private when that one is
is_private(ip_obj) ==
    IF ip_obj.version = 4 THEN IsPrivateV4(ip_obj.octets)
    ELSE IF (\A k \in 1..5 : ip_obj.words[k] = 0) /\ ip_obj.words[6] = 65535
    THEN IsPrivateV4(<<ip_obj.words[7] \div 256, ip_obj.words[7] % 256,
                       ip_obj.words[8] \div 256, ip_obj.words[8] % 256>>)
    ELSE IsPrivateV6(ip_obj.words)

\* IPHelper.is_private_ip: False when the text is no address
is_private_ip(ip) ==
    LET ip_obj == ip_address(ip)
    IN  IF ip_obj = None THEN FALSE ELSE is_private(ip_obj[1])

IP_ANY == <<"0", ".", "0", ".", "0", ".", "0">>

\* IPHelper.is_local_ip
is_local_ip(ip) == ip \in {IP_LOOPBACK, TXT_LOCALHOST, IP6_LOOPBACK, IP_ANY}

H_X_FORWARDED_FOR == <<"x", "-", "f", "o", "r", "w", "a", "r", "d", "e", "d", "-", "f", "o", "r">>
H_X_REAL_IP == <<"x", "-", "r", "e", "a", "l", "-", "i", "p">>
H_CF_CONNECTING_IP == <<"c", "f", "-", "c", "o", "n", "n", "e", "c", "t", "i", "n", "g", "-", "i", "p">>
H_X_CLIENT_IP == <<"x", "-", "c", "l", "i", "e", "n", "t", "-", "i", "p">>
H_X_FORWARDED == <<"x", "-", "f", "o", "r", "w", "a", "r", "d", "e", "d">>
H_FORWARDED_FOR == <<"f", "o", "r", "w", "a", "r", "d", "e", "d", "-", "f", "o", "r">>
H_FORWARDED == <<"f", "o", "r", "w", "a", "r", "d", "e", "d">>

ip_headers ==
    <<H_X_FORWARDED_FOR, H_X_REAL_IP, H_CF_CONNECTING_IP, H_X_CLIENT_IP,
      H_X_FORWARDED, H_FORWARDED_FOR, H_FORWARDED>>

\* ip.split(',')[0].strip()
FirstValue(ip) == Strip(SplitOn(ip, ",")[1])

\* the loop of extract_real_ip from header number k on
RECURSIVE ExtractFrom(_, _)
\* the address of a header, if it is one to take
ExtractValue(request_headers, k, first) ==
    IF first # <<>> /\ ~is_private_ip(first) /\ ~is_local_ip(first)
    THEN Some(first)
    ELSE ExtractFrom(request_headers, k + 1)

ExtractHeader(request_headers, k, ip) ==
    IF ip # None /\ ip[1] # <<>>
    THEN ExtractValue(request_headers, k, FirstValue(ip[1]))
    ELSE ExtractFrom(request_headers, k + 1)

ExtractFrom(request_headers, k) ==
    IF k > Len(ip_headers) THEN None
    ELSE ExtractHeader(request_headers, k, request_headers[ip_headers[k]])

\* IPHelper.extract_real_ip
extract_real_ip(request_headers) == ExtractFrom(request_headers, 1)

\* get_client_ip(request), and the client_ip LoggingMiddleware puts into
\* request.state: the address of the headers, or that of the peer
get_client_ip(request_headers, peer) ==
    LET real_ip == extract_real_ip(request_headers)
    IN  IF real_ip # None THEN real_ip[1] ELSE peer

IP_DOC == <<"2", "0", "3", ".", "0", ".", "1", "1", "3", ".", "1", "9", "5">>
IP_PRIVATE == <<"1", "0", ".", "0", ".", "0", ".", "1">>
IP_PROXY == <<"1", "7", "2", ".", "1", "7", ".", "0", ".", "1">>
V_DOC_LIST == <<"2", "0", "3", ".", "0", ".", "1", "1", "3", ".", "1", "9", "5", ",", " ", "7", "0", ".", "4", "1", ".", "3", ".", "1", "8">>
V_PRIVATE_LIST == <<" ", "1", "0", ".", "0", ".", "0", ".", "1", " ", ",", " ", "8", ".", "8", ".", "8", ".", "8">>
V_PUBLIC_LIST == <<"8", ".", "8", ".", "8", ".", "8", ",", "1", "0", ".", "0", ".", "0", ".", "1">>
V_UNKNOWN == <<"u", "n", "k", "n", "o", "w", "n">>

\* what a forwarding header holds: nothing, a public address, a private one,
\* loopback addresses, lists of addresses, and a text that is no address
HeaderValues ==
    {None, Some(<<>>), Some(IP_PUBLIC), Some(IP_PRIVATE), Some(IP_LOOPBACK),
     Some(TXT_LOCALHOST), Some(V_DOC_LIST), Some(V_PRIVATE_LIST),
     Some(V_PUBLIC_LIST), Some(V_UNKNOWN)}

\* the headers that are set in a request
SetHeaders == {H_X_FORWARDED_FOR, H_X_REAL_IP, H_FORWARDED}

\* dict(request.headers), a lookup of a header that is not there giving None
RequestHeaders ==
    {[h \in {ip_headers[k] : k \in 1..Len(ip_headers)} |->
         IF h \in SetHeaders THEN f[h] ELSE None] :
        f \in [SetHeaders -> HeaderValues]}

\* request.client.host: a proxy of a private network, or a public address
Peers == {IP_PROXY, IP_PUBLIC}

IpIdle == [pc |-> "idle", headers |-> <<>>, peer |-> <<>>,
           client_ip |-> <<>>, key |-> <<>>, ip_address |-> <<>>]

IpInit ==
    ipreq \in {[IpIdle EXCEPT !.headers = h, !.peer = peer] :
                  h \in RequestHeaders, peer \in Peers}

\* LoggingMiddleware.dispatch: request.state.client_ip is set
IpDispatch ==
    /\ ipreq.pc = "idle"
    /\ ipreq' = [ipreq EXCEPT
                    !.pc = "set",
                    !.client_ip = get_client_ip(ipreq.headers, ipreq.peer)]
    /\ UNCHANGED <<store, cache, clock, ticks, zsets, lim, codec, gate, keyed,
         http, loc, env, txn, steppers>>

\* the limiter makes its key of get_client_ip(request), and the endpoint
\* hands request.state.client_ip to create_comment as ip_address
IpUse ==
    /\ ipreq.pc = "set"
    /\ ipreq' = [ipreq EXCEPT
                    !.pc = "used",
                    !.key = _get_rate_limit_key(
                                get_client_ip(ipreq.headers, ipreq.peer),
                                <<"i", "p">>),
                    !.ip_address = ipreq.client_ip]
    /\ UNCHANGED <<store, cache, clock, ticks, zsets, lim, codec, gate, keyed,
         http, loc, env, txn, steppers>>

-----------------------------------------------------------------------------
(* app/core/database.py and the write path: the session of one request *)

\* sessionmaker(autocommit=True): every statement is committed as it runs
autocommit_on == TRUE

\* sessionmaker(autocommit=False, ...)
autocommit == FALSE

NoOp == [kind |-> "none", comment_data |-> <<>>, ip_address |-> <<>>,
         comment_id |-> 0, update_data |-> <<>>]

\* the write requests: creations, updates of the content, of the flag or of
\* both, and deletions
TxnOps ==
    {[NoOp EXCEPT !.kind = "create", !.comment_data = d,
                   !.ip_address = ip] :
        d \in HttpRequests, ip \in ClientAddresses}
    \cup {[NoOp EXCEPT !.kind = "update", !.comment_id = i,
                       !.update_data = u] :
              i \in 1..MaxComments,
              u \in [content : {None, Some(C_DATE)},
                     is_deleted : {None, Some(TRUE), Some(FALSE)}]}
    \cup {[NoOp EXCEPT !.kind = "delete", !.comment_id = i] :
              i \in 1..MaxComments}

\* no request under way; before: the table when the last request began;
\* work: the table as the session of the request sees it; step: the number
\* of statements the request has run; attempts: the number of requests it
\* has sent to the API; last: how the last request ended
TxnIdle == [pc |-> "idle", op |-> NoOp, before |-> <<>>, work |-> <<>>,
            step |-> 0, attempts |-> 0, last |-> "none"]

\* get_db: db = SessionLocal(), and the request starts
TxnBegin ==
    /\ txn.pc = "idle"
    /\ \E op \in TxnOps :
          /\ op.kind = "create" => Len(store) < MaxComments
          /\ txn' = [pc |-> "begun", op |-> op, before |-> store,
                     work |-> store, step |-> 0, attempts |-> 0,
                     last |-> txn.last]
    /\ UNCHANGED <<store, cache, clock, ticks, zsets, lim, codec, gate, keyed,
         http, loc, env, ipreq, steppers>>

\* the row is pending in the session of a call that get_location answered
\* (no time passes in the specification of the session, so that the start
\* of the transaction is the time of every step)
TxnAdded(located) ==
    /\ cache' = located.cache
    /\ txn' = [txn EXCEPT
                  !.pc = "commit",
                  !.step = @ + 1,
                  !.work = create_comment_located(txn.op.comment_data,
                               txn.op.ip_address, UA_TEST, located,
                               "none", None).store]

\* get_location up to its first request to the API, where the call waits,
\* or to its end when it sends none, and then self.db.add(comment)
TxnLooked(get_ok, setex_ok, client_ok) ==
    IF Suspends(txn.op.ip_address, get_ok, client_ok)
    THEN /\ txn' = [txn EXCEPT !.pc = "await", !.attempts = 1]
         /\ cache' = cache
    ELSE TxnAdded(get_location(txn.op.ip_address, get_ok, setex_ok,
                               client_ok, <<>>))

\* the statements up to the first write or the first wait: the parent and
\* spam checks of create_comment and its call of get_location (line 126),
\* and the lookup of the row in update_comment and delete_comment; an
\* exception raised here reaches the except clause, which rolls back
TxnLookup ==
    /\ txn.pc = "begun"
    /\ IF txn.op.kind = "create"
       THEN IF CreateRejection(txn.op.comment_data, "none") # "lookup"
            THEN /\ txn' = [txn EXCEPT !.pc = "failed", !.work = store]
                 /\ cache' = cache
            ELSE \E get_ok \in BOOLEAN, setex_ok \in BOOLEAN,
                    client_ok \in BOOLEAN :
                     TxnLooked(get_ok, setex_ok, client_ok)
       ELSE /\ txn' = [txn EXCEPT
                          !.pc = IF txn.op.comment_id \notin Ids
                                 THEN "failed" ELSE "write",
                          !.work = IF txn.op.comment_id \notin Ids
                                   THEN store ELSE @]
            /\ cache' = cache
    /\ UNCHANGED <<store, clock, ticks, zsets, lim, codec, gate, keyed,
         http, loc, env, ipreq, steppers>>

\* the request is cancelled while it waits (the client has gone, a timeout):
\* CancelledError passes the except clauses, which catch Exception, and
\* get_db closes the session in its finally, which rolls back
TxnCancel ==
    /\ txn.pc = "await"
    /\ txn' = [txn EXCEPT !.pc = "aborted", !.work = store]
    /\ UNCHANGED <<store, cache, clock, ticks, zsets, lim, codec, gate, keyed,
         http, loc, env, ipreq, steppers>>

\* the request of the call to the API is answered: the next request, or
\* SETEX, the return of get_location and self.db.add(comment)
TxnAnswered(a, setex_ok) ==
    IF a.next = "request"
    THEN /\ txn' = [txn EXCEPT !.attempts = @ + 1]
         /\ cache' = cache
    ELSE TxnAdded(LocationFetched(txn.op.ip_address, setex_ok,
                      [raises |-> FALSE, location |-> a.location,
                       attempts |-> txn.attempts]))

TxnAnswer ==
    /\ txn.pc = "await"
    /\ \E answer \in {ApiTimeout, ApiOk(CityBody)}, setex_ok \in BOOLEAN :
          TxnAnswered(RequestAnswered(txn.attempts - 1, answer), setex_ok)
    /\ UNCHANGED <<store, clock, ticks, zsets, lim, codec, gate, keyed,
         http, loc, env, ipreq, steppers>>

\* the UPDATE statements that remain to be run: of the content and of
\* is_deleted in update_comment, of is_deleted in delete_comment
Statements(op) ==
    IF op.kind = "delete" THEN <<[column |-> "is_deleted", value |-> TRUE]>>
    ELSE (IF op.update_data.content # None
          THEN <<[column |-> "content",
                  value |-> SanitizedContent[op.update_data.content[1]]]>>
          ELSE <<>>)
         \o (IF op.update_data.is_deleted # None
             THEN <<[column |-> "is_deleted",
                     value |-> op.update_data.is_deleted[1]]>>
             ELSE <<>>)

\* self.db.execute("UPDATE comments SET ..."): the statement runs in the
\* transaction of the session, or raises and the except clause rolls back
TxnExecute ==
    /\ txn.pc = "write"
    /\ txn.step < Len(Statements(txn.op))
    /\ \E ok \in BOOLEAN :
          LET statement == Statements(txn.op)[txn.step + 1]
              id == txn.op.comment_id
              work1 ==
                  IF statement.column = "content"
                  THEN [txn.work EXCEPT ![id].content = statement.value]
                  ELSE [txn.work EXCEPT ![id].is_deleted = statement.value]
              store1 == IF ok /\ autocommit THEN work1 ELSE store
          IN  /\ store' = store1
              /\ txn' = [txn EXCEPT
                            !.pc = IF ok THEN "write" ELSE "failed",
                            !.step = IF ok THEN @ + 1 ELSE @,
                            !.work = IF ok THEN work1 ELSE store1]
    /\ UNCHANGED <<cache, clock, ticks, zsets, lim, codec, gate, keyed,
         http, loc, env, ipreq, steppers>>

\* self.db.commit(): the pending changes become the table, or the commit
\* raises and the except clause rolls back; flushed: the INSERT of a
\* pending row had run by then, and the id it took is not given again
TxnCommit ==
    /\ \/ txn.pc = "commit"
       \/ txn.pc = "write" /\ txn.step = Len(Statements(txn.op))
    /\ \E ok \in BOOLEAN, flushed \in BOOLEAN :
          /\ store' = IF ok THEN txn.work
                      ELSE IF txn.pc = "commit" /\ flushed
                      THEN Append(store, RolledBack)
                      ELSE store
          /\ txn' = [txn EXCEPT
                        !.pc = IF ok THEN "committed" ELSE "failed",
                        !.work = store']
    /\ UNCHANGED <<cache, clock, ticks, zsets, lim, codec, gate, keyed,
         http, loc, env, ipreq, steppers>>

\* get_db: finally db.close(); the request is over
TxnEnd ==
    /\ txn.pc \in {"committed", "failed", "aborted"}
    /\ txn' = [TxnIdle EXCEPT
                  !.last = txn.pc,
                  !.before = IF txn.pc = "committed" THEN <<>>
                             ELSE txn.before]
    /\ UNCHANGED <<store, cache, clock, ticks, zsets, lim, codec, gate, keyed,
         http, loc, env, ipreq, steppers>>

(* create_comment, one statement at a time *)

\* create_comment with the location looked up before the checks
CREATE_STEPS_enrich_first ==
    <<"enrich", "check_parent", "check_spam", "persist", "clear_cache">>

\* the statements of the try block of create_comment, in their order
CREATE_STEPS ==
    <<"check_parent", "check_spam", "enrich", "persist", "clear_cache">>

\* where the call stands after a step: a raise leaves the try block, and so
\* does the end of the last statement
StepAfter(step, raised) ==
    LET k == CHOOSE n \in 1..Len(CREATE_STEPS) : CREATE_STEPS[n] = step
    IN  IF raised \/ k = Len(CREATE_STEPS) THEN "done"
        ELSE CREATE_STEPS[k + 1]

\* the call after a step: the step is done, the exception it raised (or
\* "none") is what the except clause makes of it
SteppedAt(step, exc) ==
    [call EXCEPT !.steps = Append(@, step),
                 !.outcome = IF exc # "none" THEN exc ELSE @,
                 !.pc = StepAfter(step, exc # "none")]

Stepped(exc) == SteppedAt(call.pc, exc)

CallIdle ==
    [pc |-> "idle", comment_data |-> NoRequest, ip_address |-> <<>>,
     began |-> None, attempts |-> 0, db |-> "none", location |-> <<>>,
     steps |-> <<>>, outcome |-> "none", before |-> <<>>,
     cache_before |-> <<>>]

\* the requests of the calls followed: a clean and a spam content, no
\* parent, parent_id 0 and the first two ids
CallRequests ==
    [page : Pages, email : {EMAIL_TEST}, username : {USERNAME_TEST},
     content : {C_PLAIN, C_LINKS},
     parent_id : {None} \cup {Some(n) : n \in 0..MaxComments}]

\* the API answers of the calls followed: a request times out, or it is
\* answered with a country and a city
CallApis == {ApiTimeout, ApiOk(CityBody)}

\* a call of create_comment starts
CallBegin ==
    /\ call.pc = "idle"
    /\ Len(store) < MaxComments
    /\ \E comment_data \in CallRequests, ip \in ClientAddresses,
          fault \in DbFaults :
           call' = [CallIdle EXCEPT !.pc = CREATE_STEPS[1],
                                    !.comment_data = comment_data,
                                    !.ip_address = ip,
                                    !.db = fault, !.before = store,
                                    !.cache_before = cache]
    /\ UNCHANGED <<store, cache, clock, ticks, zsets, lim, codec, gate,
                   keyed, http, loc, env, ipreq, txn, insts, reader, mw>>

\* "if comment_data.parent_id:" and the two raises under it; the SELECT of
\* the parent begins the transaction of the session
CallCheckParent ==
    /\ call.pc = "check_parent"
    /\ LET parent_id == call.comment_data.parent_id
           checks_parent == parent_id # None /\ parent_id[1] # 0
           parent_comment == ParentComment(parent_id[1])
           exc == IF checks_parent /\ call.db = "lookup"
                  THEN "DatabaseException"
                  ELSE IF checks_parent /\ parent_comment = None
                  THEN "NotFoundError"
                  ELSE IF checks_parent
                          /\ ParentPageDiffers(parent_comment[1],
                                               call.comment_data.page)
                  THEN "ValidationException"
                  ELSE "none"
       IN  call' = [Stepped(exc) EXCEPT
                       !.began = IF checks_parent THEN Some(clock) ELSE @]
    /\ UNCHANGED <<store, cache, clock, ticks, zsets, lim, codec, gate,
                   keyed, http, loc, env, ipreq, txn, insts, reader, mw>>

\* "if SecurityUtils.check_spam_content(comment_data.content): raise"
CallCheckSpam ==
    /\ call.pc = "check_spam"
    /\ call' = Stepped(IF SpamContent[call.comment_data.content]
                       THEN "ValidationException" ELSE "none")
    /\ UNCHANGED <<store, cache, clock, ticks, zsets, lim, codec, gate,
                   keyed, http, loc, env, ipreq, txn, insts, reader, mw>>

\* get_location has returned r
CallEnriched(r) ==
    /\ cache' = r.cache
    /\ call' = [SteppedAt("enrich",
                          IF r.raises THEN "DatabaseException" ELSE "none")
                   EXCEPT !.location = r.location, !.attempts = r.attempts]

\* get_location up to its first request to the API, or to its end
CallLooked(get_ok, setex_ok, client_ok) ==
    IF Suspends(call.ip_address, get_ok, client_ok)
    THEN /\ call' = [call EXCEPT !.pc = "await", !.attempts = 1]
         /\ cache' = cache
    ELSE CallEnriched(get_location(call.ip_address, get_ok, setex_ok,
                                   client_ok, <<>>))

\* detect_system and "await location_service.get_location(ip_address)", up
\* to the first request to the API
CallEnrich ==
    /\ call.pc = "enrich"
    /\ \E get_ok \in BOOLEAN, setex_ok \in BOOLEAN, client_ok \in BOOLEAN :
           CallLooked(get_ok, setex_ok, client_ok)
    /\ UNCHANGED <<store, clock, ticks, zsets, lim, codec, gate, keyed,
                   http, loc, env, ipreq, txn, insts, reader, mw>>

\* the request to the API is answered: the next request, or SETEX and the
\* return of get_location
CallAnswered(a, setex_ok) ==
    IF a.next = "request"
    THEN /\ call' = [call EXCEPT !.attempts = @ + 1]
         /\ cache' = cache
    ELSE CallEnriched(LocationFetched(call.ip_address, setex_ok,
                          [raises |-> FALSE, location |-> a.location,
                           attempts |-> call.attempts]))

\* "response = await client.get(url)" returns or raises
CallAnswer ==
    /\ call.pc = "await"
    /\ \E answer \in CallApis, setex_ok \in BOOLEAN :
           CallAnswered(RequestAnswered(call.attempts - 1, answer),
                        setex_ok)
    /\ UNCHANGED <<store, clock, ticks, zsets, lim, codec, gate, keyed,
                   http, loc, env, ipreq, txn, insts, reader, mw>>

\* Comment(...), db.add, db.commit and db.refresh
CallPersist ==
    /\ call.pc = "persist"
    /\ LET comment_data == call.comment_data
           content == SanitizedContent[comment_data.content]
           email_hash == EmailHash[comment_data.email]
           address == InetValue[call.ip_address]
           system_type == SystemType[UA_TEST]
           comment == CommentRow(comment_data, email_hash, content,
                                 address.v, UA_TEST, system_type,
                                 call.location,
                                 IF call.began = None THEN clock
                                 ELSE call.began[1])
           refused == \/ call.db = "statement"
                      \/ InsertRefused(comment_data, email_hash, content,
                                       call.ip_address, address, UA_TEST,
                                       system_type, call.location)
           foreign_key_holds == \/ comment_data.parent_id = None
                                \/ comment_data.parent_id[1] \in Ids
           committed == ~refused /\ call.db # "commit" /\ foreign_key_holds
       IN  /\ store' = IF committed THEN Append(store, comment)
                       ELSE IF refused THEN store
                       ELSE Append(store, RolledBack)
           /\ call' = Stepped(IF committed /\ call.db # "refresh"
                              THEN "none"
                              ELSE "DatabaseException")
    /\ UNCHANGED <<cache, clock, ticks, zsets, lim, codec, gate, keyed,
                   http, loc, env, ipreq, txn, insts, reader, mw>>

\* "await self._clear_page_cache(comment_data.page)" and the return
CallClearCache ==
    /\ call.pc = "clear_cache"
    /\ cache' = _clear_page_cache(call.comment_data.page)
    /\ call' = [Stepped("none") EXCEPT !.outcome = "Created"]
    /\ UNCHANGED <<store, clock, ticks, zsets, lim, codec, gate, keyed,
                   http, loc, env, ipreq, txn, insts, reader, mw>>

\* the call has returned or raised; the next one can start
CallEnd ==
    /\ call.pc = "done"
    /\ call' = CallIdle
    /\ UNCHANGED <<store, cache, clock, ticks, zsets, lim, codec, gate,
                   keyed, http, loc, env, ipreq, txn, insts, reader, mw>>

\* a comment is deleted between two calls
CallDelete == call.pc = "idle" /\ DeleteComment

(* _check_rate_limit in several server instances that share one redis *)

Instances == 1..MaxInstances

\* the key all instances check
SHARED_KEY == <<"a">>

\* no instance is in a check; log: the checks whose pipeline has run, in the
\* order redis ran them
InstsIdle(limit, window) ==
    [limit |-> limit, window |-> window,
     pc |-> [i \in Instances |-> "idle"],
     current_time |-> [i \in Instances |-> 0],
     log |-> <<>>]

InstsInit ==
    insts \in {InstsIdle(limit, window) :
                  limit \in 1..MaxRate, window \in 1..MaxWindow}

\* the checks begun: those run and those that have read the time
ChecksBegun ==
    Len(insts.log) + Cardinality({i \in Instances : insts.pc[i] = "timed"})

\* "current_time = int(time.time())" in one instance
InstReadTime ==
    /\ \E i \in Instances :
           /\ insts.pc[i] = "idle"
           /\ ChecksBegun < MaxChecks
           /\ insts' = [insts EXCEPT !.pc[i] = "timed",
                                     !.current_time[i] = clock]
    /\ UNCHANGED <<store, cache, clock, ticks, zsets, lim, codec, gate,
                   keyed, http, loc, env, ipreq, txn, call, reader, mw>>

\* "pipeline.execute()" of one instance and the rest of its check
InstExecute ==
    /\ \E i \in Instances :
           /\ insts.pc[i] = "timed"
           /\ LET r == _check_rate_limit_at(insts.current_time[i],
                            SHARED_KEY, insts.limit, insts.window, TRUE)
              IN  /\ zsets' = r.zsets
                  /\ insts' =
                         [insts EXCEPT
                             !.pc[i] = "idle",
                             !.log = Append(@,
                                 [instance |-> i,
                                  time |-> insts.current_time[i],
                                  passed |-> r.passed,
                                  current_count |-> r.info.current_count[1]])]
    /\ UNCHANGED <<store, cache, clock, ticks, lim, codec, gate, keyed,
                   http, loc, env, ipreq, txn, call, reader, mw>>

(* get_comments and get_page_stats, one statement at a time, while other
   requests write *)

\* no read under way; counted: the comments of the page whose replies the
\* call has counted; instants: the statistics of the page at every moment
\* since the call began; overlapped: a write was committed during the call
ReaderIdle ==
    [pc |-> "idle", op |-> "none", page |-> <<>>, limit |-> 1,
     cache_key |-> <<>>, total_comments |-> 0, counted |-> 0,
     computed |-> [outcome |-> "none"], instants |-> {},
     overlapped |-> FALSE]

\* the query of the get_comments call under way
ReaderQuery ==
    [page |-> reader.page, cursor |-> EmptyText, limit |-> reader.limit,
     sort |-> COL_CREATED_AT, order |-> DESC]

\* the counts of a page in the table s: its live rows, those of them
\* without a parent, and the others
TrueCounts(s, page) ==
    LET live == {i \in RowIds(s) : s[i].page = page /\ ~s[i].is_deleted}
        top == {i \in live : s[i].parent_id = None}
    IN  [total_comments |-> Cardinality(live),
         top_level_comments |-> Cardinality(top),
         replies |-> Cardinality(live \ top)]

\* room in the key space for the entry of the call
KeyFits(cache_key) ==
    cache_key \in DOMAIN cache \/ Cardinality(DOMAIN cache) < MaxCacheKeys

\* get_comments: the cache key and "cached_result = await
\* self._get_from_cache(cache_key)"
ReadBeginComments ==
    /\ reader.pc = "idle"
    /\ \E page \in Pages, limit \in Limits :
           LET cache_key ==
                   generate_cache_key(TXT_COMMENTS_CURSOR,
                       <<page, CursorText(EmptyText), Decimal(limit),
                         COL_CREATED_AT,
                         DESC, TXT_TRUE>>)
               cached_result == _get_from_cache(cache_key)
           IN  /\ KeyFits(cache_key)
               /\ reader' =
                      [ReaderIdle EXCEPT
                          !.op = "get_comments", !.page = page,
                          !.limit = limit, !.cache_key = cache_key,
                          !.pc = IF cached_result # None THEN "done"
                                 ELSE "query",
                          !.computed =
                              IF cached_result # None
                              THEN [outcome |-> "ok",
                                    result |-> cached_result[1]]
                              ELSE @]
    /\ UNCHANGED <<store, cache, clock, ticks, zsets, lim, codec, gate,
                   keyed, http, loc, env, ipreq, txn, call, insts, mw>>

\* the page as "base_query.limit(query.limit + 1).all()" loaded it: the
\* comments, has_next and the cursor, with no replies counted yet
PageLoaded(page) ==
    [page EXCEPT
        !.comments = [k \in 1..Len(page.comments) |->
                         [page.comments[k] EXCEPT !.reply_count = 0]]]

\* the SELECT of the page has given `selected`
ReadSelected(selected) ==
    reader' = IF selected.outcome # "ok"
              THEN [reader EXCEPT !.computed = selected, !.pc = "done"]
              ELSE [reader EXCEPT
                       !.computed = [outcome |-> "ok",
                                     result |-> PageLoaded(selected.result)],
                       !.counted = 0,
                       !.pc = IF Len(selected.result.comments) = 0
                              THEN "set_cache" ELSE "count_replies"]

\* get_comments: the SELECT of the page
ReadQuery ==
    /\ reader.pc = "query"
    /\ ReadSelected(get_comments_query(ReaderQuery))
    /\ UNCHANGED <<store, cache, clock, ticks, zsets, lim, codec, gate,
                   keyed, http, loc, env, ipreq, txn, call, insts, mw>>

\* the reply count of comment number k of the page is n
ReadCounted(k, n) ==
    reader' = [reader EXCEPT
                  !.computed.result.comments[k].reply_count = n,
                  !.counted = k,
                  !.pc = IF k = Len(reader.computed.result.comments)
                         THEN "set_cache" ELSE "count_replies"]

\* get_comments: "reply_count = ... .count()" for the next comment of the
\* page, a SELECT of its own, which sees what is committed when it runs
ReadCountReplies ==
    /\ reader.pc = "count_replies"
    /\ ReadCounted(reader.counted + 1,
           ReplyCount(reader.computed.result.comments[reader.counted + 1].id))
    /\ UNCHANGED <<store, cache, clock, ticks, zsets, lim, codec, gate,
                   keyed, http, loc, env, ipreq, txn, call, insts, mw>>

\* get_page_stats: the cache key and the lookup
ReadBeginStats ==
    /\ reader.pc = "idle"
    /\ \E page \in Pages :
           LET cache_key == TXT_PAGE_STATS \o <<":">> \o page
               cached_result == _get_from_cache(cache_key)
           IN  /\ KeyFits(cache_key)
               /\ reader' =
                      [ReaderIdle EXCEPT
                          !.op = "get_page_stats", !.page = page,
                          !.cache_key = cache_key,
                          !.instants = {TrueCounts(store, page)},
                          !.pc = IF cached_result # None THEN "done"
                                 ELSE "count_total",
                          !.computed =
                              IF cached_result # None
                              THEN [outcome |-> "ok",
                                    result |-> cached_result[1]]
                              ELSE @]
    /\ UNCHANGED <<store, cache, clock, ticks, zsets, lim, codec, gate,
                   keyed, http, loc, env, ipreq, txn, call, insts, mw>>

\* get_page_stats: "total_comments = ... .count()"
ReadCountTotal ==
    /\ reader.pc = "count_total"
    /\ reader' = [reader EXCEPT !.total_comments = CountComments(reader.page),
                                !.pc = "count_top_level"]
    /\ UNCHANGED <<store, cache, clock, ticks, zsets, lim, codec, gate,
                   keyed, http, loc, env, ipreq, txn, call, insts, mw>>

\* get_page_stats: "top_level_comments = ... .count()", replies and result
ReadCountTopLevel ==
    /\ reader.pc = "count_top_level"
    /\ LET total_comments == reader.total_comments
           top_level_comments == CountTopLevel(reader.page)
           replies == total_comments - top_level_comments
       IN  reader' =
               [reader EXCEPT
                   !.computed =
                       [outcome |-> "ok",
                        result |-> [total_comments |-> total_comments,
                                    top_level_comments |-> top_level_comments,
                                    replies |-> replies]],
                   !.pc = "set_cache"]
    /\ UNCHANGED <<store, cache, clock, ticks, zsets, lim, codec, gate,
                   keyed, http, loc, env, ipreq, txn, call, insts, mw>>

\* "await self._set_cache(cache_key, result, ttl)" and the return
ReadSetCache ==
    /\ reader.pc = "set_cache"
    /\ cache' = _set_cache(cache, reader.cache_key, reader.computed.result,
                           IF reader.op = "get_page_stats" THEN STATS_TTL
                           ELSE CACHE_TTL)
    /\ reader' = [reader EXCEPT !.pc = "done"]
    /\ UNCHANGED <<store, clock, ticks, zsets, lim, codec, gate, keyed,
                   http, loc, env, ipreq, txn, call, insts, mw>>

\* the response is out; the next read can start
ReadEnd ==
    /\ reader.pc = "done"
    /\ reader' = ReaderIdle
    /\ UNCHANGED <<store, cache, clock, ticks, zsets, lim, codec, gate,
                   keyed, http, loc, env, ipreq, txn, call, insts, mw>>

\* a write request runs while the read is between two statements: its
\* commit and its cache invalidation
WriteDuringRead(r) ==
    /\ reader.pc # "done"
    /\ Len(r.store) <= MaxComments
    /\ store' = r.store
    /\ cache' = r.cache
    /\ reader' =
           IF reader.pc = "idle" THEN reader
           ELSE [reader EXCEPT
                    !.overlapped = @ \/ store' # store,
                    !.instants =
                        IF reader.op = "get_page_stats"
                        THEN @ \cup {TrueCounts(r.store, reader.page)}
                        ELSE @]
    /\ UNCHANGED <<clock, ticks, zsets, lim, codec, gate, keyed, http, loc,
                   env, ipreq, txn, call, insts, mw>>

RaceCreate ==
    \E comment_data \in PlainRequests, fault \in ReadFaults :
        WriteDuringRead(create_comment(comment_data, IP_LOOPBACK, UA_TEST,
                                       NoNet, fault))

RaceUpdate ==
    \E comment_id \in 1..MaxComments, update_data \in UpdateData,
       fault \in ReadFaults :
        WriteDuringRead(update_comment(comment_id, update_data, fault))

RaceDelete ==
    \E comment_id \in 1..MaxComments, fault \in ReadFaults :
        WriteDuringRead(delete_comment(comment_id, fault))

(* rate_limit_middleware, from the request to the response or the
   exception that leaves it *)

\* the rate-limit fields of class Settings
Settings == [RATE_LIMIT_ENABLED |-> TRUE, IP_RATE_LIMIT |-> 10]

\* the paths the middleware hands on without a check
SKIP_PATHS == {"/health", "/docs", "/openapi.json", "/redoc"}

\* the paths of the requests followed: the paths above, and the health
\* check, the comments and the statistics of the router (prefix /api)
RequestPaths ==
    SKIP_PATHS \cup {"/api/health", "/api/comments", "/api/stats/p"}

TXT_GLOBAL == <<"g", "l", "o", "b", "a", "l">>
TXT_IP == <<"i", "p">>
TXT_USER == <<"u", "s", "e", "r">>

\* the sorted sets z with the set of `key` as the check r left it
WithKey(z, r, key) ==
    [k \in DOMAIN z \cup {key} |-> IF k = key THEN r.zsets[key] ELSE z[k]]

\* the three checks of the middleware for a client, in their order: the
\* field of Settings each reads and the key it counts under
MiddlewareChecks(ip) ==
    <<[field |-> "GLOBAL_RATE_LIMIT",
       key |-> _get_rate_limit_key(TXT_GLOBAL, TXT_GLOBAL)],
      [field |-> "IP_RATE_LIMIT", key |-> _get_rate_limit_key(ip, TXT_IP)],
      [field |-> "USER_RATE_LIMIT",
       key |-> _get_rate_limit_key(TXT_IP \o <<":">> \o ip, TXT_USER)]>>

\* the checks from the nth on: the exception that ends them ("none" when
\* all have passed) and the sorted sets z after them. A field that
\* Settings does not have raises AttributeError before the check counts.
RECURSIVE RunChecks(_, _, _)
RunChecks(checks, n, z) ==
    IF n > Len(checks) THEN [raised |-> "none", zsets |-> z]
    ELSE IF checks[n].field \notin DOMAIN Settings
    THEN [raised |-> "AttributeError", zsets |-> z]
    ELSE LET r == _check_rate_limit(checks[n].key,
                                    Settings[checks[n].field], 60, TRUE)
             z1 == WithKey(z, r, checks[n].key)
         IN  IF ~r.passed
             THEN [raised |-> "RateLimitException", zsets |-> z1]
             ELSE RunChecks(checks, n + 1, z1)

\* the try block of the middleware for a request whose handler answers
\* with `downstream` (a response, or "raises"): how often call_next was
\* awaited, what the block raised, the response it returned, the sorted
\* sets after it, and whether the request was handed on without going
\* into the checks
TryBlock(path, ip, downstream) ==
    LET checked == RunChecks(MiddlewareChecks(ip), 1, zsets)
        raised == IF downstream = "raises" THEN "Exception" ELSE "none"
    IN  IF path \in SKIP_PATHS
        THEN [calls |-> 1, raised |-> raised, response |-> downstream,
              zsets |-> zsets, skipped |-> TRUE]
        ELSE IF checked.raised # "none"
        THEN [calls |-> 0, raised |-> checked.raised, response |-> "none",
              zsets |-> checked.zsets, skipped |-> FALSE]
        ELSE [calls |-> 1, raised |-> raised, response |-> downstream,
              zsets |-> checked.zsets, skipped |-> FALSE]

\* no request in the middleware
MwIdle ==
    [pc |-> "idle", path |-> "", ip |-> <<>>, calls |-> 0,
     raised |-> "none", skipped |-> FALSE, outcome |-> "none",
     zsets_before |-> <<>>]

\* what the handlers below the middleware do with a request: a response
\* with a status, or an exception that is no RateLimitException
Downstreams == {"200", "404", "500", "raises"}

\* a request reaches the middleware
MwDispatch ==
    /\ mw.pc = "idle"
    /\ \E path \in RequestPaths, ip \in {<<"1">>, <<"2">>, <<"3">>} :
           mw' = [MwIdle EXCEPT !.pc = "try", !.path = path, !.ip = ip,
                                !.zsets_before = zsets]
    /\ UNCHANGED <<store, cache, clock, ticks, zsets, lim, codec, gate,
                   keyed, http, loc, env, ipreq, txn, call, insts,
                   reader>>

\* the try block has ended with r
MwTried(r) ==
    /\ zsets' = r.zsets
    /\ mw' = [mw EXCEPT
                 !.calls = r.calls,
                 !.raised = r.raised,
                 !.skipped = r.skipped,
                 !.outcome = r.response,
                 !.pc = IF r.raised = "none" THEN "done" ELSE "except"]

\* the try block, to its return or to the exception it raises
MwTry ==
    /\ mw.pc = "try"
    /\ \E downstream \in Downstreams :
           MwTried(TryBlock(mw.path, mw.ip, downstream))
    /\ UNCHANGED <<store, cache, clock, ticks, lim, codec, gate, keyed,
                   http, loc, env, ipreq, txn, call, insts, reader>>

\* "except RateLimitException: raise" and "except Exception: response =
\* await call_next(request)"
MwExcept ==
    /\ mw.pc = "except"
    /\ \E downstream \in Downstreams :
           mw' = IF mw.raised = "RateLimitException"
                 THEN [mw EXCEPT !.pc = "done",
                                 !.outcome = "RateLimitException"]
                 ELSE [mw EXCEPT !.pc = "done",
                                 !.calls = @ + 1,
                                 !.outcome = downstream]
    /\ UNCHANGED <<store, cache, clock, ticks, zsets, lim, codec, gate,
                   keyed, http, loc, env, ipreq, txn, call, insts,
                   reader>>

\* the response or the exception has left the middleware
MwEnd ==
    /\ mw.pc = "done"
    /\ mw' = MwIdle
    /\ UNCHANGED <<store, cache, clock, ticks, zsets, lim, codec, gate,
                   keyed, http, loc, env, ipreq, txn, call, insts,
                   reader>>

\* no handler is under way
SteppersIdle ==
    /\ call = CallIdle /\ insts = InstsIdle(1, 1) /\ reader = ReaderIdle
    /\ mw = MwIdle

-----------------------------------------------------------------------------
\* the helpers at rest
HelpersIdle ==
    /\ loc = LocIdle /\ env = PlainEnvironment /\ ipreq = IpIdle /\ txn = TxnIdle
    /\ SteppersIdle

-----------------------------------------------------------------------------
(* Specifications *)

TableInit ==
    /\ store = <<>>
    /\ cache = <<>>
    /\ clock = 0
    /\ ticks = 0

Init ==
    /\ TableInit
    /\ zsets = <<>>
    /\ lim = LimIdle(1, 1)
    /\ codec = CodecIdle
    /\ gate = GateIdle
    /\ keyed = KeyedIdle
    /\ http = HttpIdle
    /\ HelpersIdle

\* the writes and the reads that go through the cache
Next ==
    \/ CreateListed
    \/ UpdateListed
    \/ DeleteListed
    \/ GetReplies
    \/ GetPageStats
    \/ GetComments
    \/ Tick

Spec == Init /\ [][Next]_vars

\* the writes alone: the table as create, update and delete leave it
TableNext ==
    \/ CreateComment
    \/ UpdateComment
    \/ DeleteComment
    \/ Tick

SpecTable == Init /\ [][TableNext]_vars

\* the cursor codec on its own
InitCodec ==
    /\ TableInit
    /\ zsets = <<>>
    /\ lim = LimIdle(1, 1)
    /\ gate = GateIdle
    /\ keyed = KeyedIdle
    /\ http = HttpIdle
    /\ HelpersIdle
    /\ CodecInit

CodecNext == CodecEncode \/ CodecDecode \/ CodecDecodeReceived

SpecCodec == InitCodec /\ [][CodecNext]_vars

\* the limiter on its own
InitLimiter ==
    /\ TableInit
    /\ zsets = <<>>
    /\ codec = CodecIdle
    /\ gate = GateIdle
    /\ keyed = KeyedIdle
    /\ http = HttpIdle
    /\ HelpersIdle
    /\ LimiterInit

LimiterNext == LimiterCheck \/ LimiterTick

SpecLimiter == InitLimiter /\ [][LimiterNext]_vars

\* the content checks on their own
InitGate ==
    /\ TableInit
    /\ zsets = <<>>
    /\ lim = LimIdle(1, 1)
    /\ codec = CodecIdle
    /\ keyed = KeyedIdle
    /\ http = HttpIdle
    /\ HelpersIdle
    /\ GateInit

GateNext == GateValidate \/ GateCheckSpam

SpecGate == InitGate /\ [][GateNext]_vars

\* the cache keys on their own
InitKeyed ==
    /\ TableInit
    /\ zsets = <<>>
    /\ lim = LimIdle(1, 1)
    /\ codec = CodecIdle
    /\ gate = GateIdle
    /\ http = HttpIdle
    /\ HelpersIdle
    /\ KeyedInit

KeyedNext == KeyedGenerate

SpecKeyed == InitKeyed /\ [][KeyedNext]_vars

\* POST /api/comments with its limiters, with a slowapi whose exception
\* has no retry_after and with one whose exception has
InitHttp ==
    /\ TableInit
    /\ zsets = <<>>
    /\ lim = LimIdle(1, 1)
    /\ codec = CodecIdle
    /\ gate = GateIdle
    /\ keyed = KeyedIdle
    /\ http = HttpIdle
    /\ loc = LocIdle /\ ipreq = IpIdle /\ txn = TxnIdle
    /\ SteppersIdle
    /\ env \in {[PlainEnvironment EXCEPT !.retry_after = retry_after] :
                   retry_after \in RetryAfters}

HttpNext == HttpPost \/ LimiterTick

SpecHttp == InitHttp /\ [][HttpNext]_vars

\* the location lookup on its own
InitLocation ==
    /\ store = <<>>
    /\ clock = 0
    /\ ticks = 0
    /\ zsets = <<>>
    /\ lim = LimIdle(1, 1)
    /\ codec = CodecIdle
    /\ gate = GateIdle
    /\ keyed = KeyedIdle
    /\ http = HttpIdle
    /\ env = PlainEnvironment
    /\ ipreq = IpIdle
    /\ txn = TxnIdle
    /\ SteppersIdle
    /\ LocationInit

LocationNext == LocBegin \/ LocAnswer \/ LocEnd \/ Tick

SpecLocation == InitLocation /\ [][LocationNext]_vars

\* create_comment with a content that holds markup
CreateMarkup ==
    \E comment_data \in [page : Pages, email : {EMAIL_TEST},
                         username : {USERNAME_TEST},
                         content : MarkupContents,
                         parent_id : {None, Some(1)}],
       address \in CreateIps, fault \in DbFaults :
        Written(create_comment(comment_data, address, UA_TEST, NoNet, fault))

\* update_comment with a content that holds markup
UpdateMarkup ==
    \E comment_id \in 1..MaxComments,
       update_data \in [content : {Some(c) : c \in MarkupContents},
                        is_deleted : {None, Some(TRUE), Some(FALSE)}],
       fault \in DbFaults :
        Written(update_comment(comment_id, update_data, fault))

\* what an administrator sends: a content with two blacklisted terms or
\* none, and the flag set, cleared or left
AdminUpdates ==
    [content : {None, Some(C_LINKS)},
     is_deleted : {None, Some(TRUE), Some(FALSE)}]

\* PUT /api/comments/{id} of an administrator
AdminUpdate ==
    \E comment_id \in 1..MaxComments, update_data \in AdminUpdates,
       fault \in DbFaults :
        Written(update_comment(comment_id, update_data, fault))

AdminNext == CreateComment \/ DeleteComment \/ AdminUpdate \/ Tick

SpecAdmin == Init /\ [][AdminNext]_vars

InitIp ==
    /\ store = <<>>
    /\ cache = <<>>
    /\ clock = 0
    /\ ticks = 0
    /\ zsets = <<>>
    /\ lim = LimIdle(1, 1)
    /\ codec = CodecIdle
    /\ gate = GateIdle
    /\ keyed = KeyedIdle
    /\ http = HttpIdle
    /\ loc = LocIdle
    /\ env = PlainEnvironment
    /\ txn = TxnIdle
    /\ SteppersIdle
    /\ IpInit

IpNext == IpDispatch \/ IpUse

SpecIp == InitIp /\ [][IpNext]_vars

TxnNext ==
    \/ TxnBegin
    \/ TxnLookup
    \/ TxnCancel
    \/ TxnAnswer
    \/ TxnExecute
    \/ TxnCommit
    \/ TxnEnd

SpecTxn == Init /\ [][TxnNext]_vars

EmailNext == EmailCreate \/ AdminUpdate \/ DeleteComment

SpecEmail == Init /\ [][EmailNext]_vars

MarkupNext == CreateMarkup \/ UpdateMarkup \/ CreateComment

SpecMarkup == Init /\ [][MarkupNext]_vars

\* the cached reads over a long time
StaleNext ==
    \/ CreatePlain
    \/ GetReplies
    \/ GetPageStats
    \/ GetComments
    \/ Wait

SpecStale == Init /\ [][StaleNext]_vars

-----------------------------------------------------------------------------
(* Properties of the cursor codec (under SpecCodec) *)

\* C10: for a sort value that is a timestamp, an integer or a string, and an
\* id, decoding the encoded cursor returns that value, of the kind and value
\* that was encoded, and that id.
C10_CursorRoundTrip ==
    codec.pc = "decoded" =>
        codec.decoded = PyDict(codec.value, PyInt(codec.id))

-----------------------------------------------------------------------------
(* Properties of the listing (under Spec) *)

\* the non-deleted top-level comments of a page
TopLevel(page) ==
    {i \in Ids : /\ store[i].page = page
                 /\ store[i].is_deleted = FALSE
                 /\ store[i].parent_id = None}

\* ids lists each row of S exactly once
ExactlyOnce(ids, S) ==
    /\ Len(ids) = Cardinality(S)
    /\ {ids[k] : k \in 1..Len(ids)} = S

\* the values of the column along ids never step against the order
InSortOrder(ids, column, order) ==
    \A a, b \in 1..Len(ids) :
        a < b =>
            IF order = ASC
            THEN ~ValueLess(ColumnValue(ids[b], column),
                            ColumnValue(ids[a], column))
            ELSE ~ValueLess(ColumnValue(ids[a], column),
                            ColumnValue(ids[b], column))

\* C1: with no write during the sweep, for the N non-deleted top-level
\* comments of a page and a limit k with 1 <= k < N, get_comments without a
\* cursor and then with each next_cursor returned, until has_next is false,
\* yields exactly the N ids, each once, in the requested sort order, for
\* every sort column and both directions.
C1_SweepComplete ==
    \A query \in Queries :
        LET sweep == Sweep(query, EmptyText)
        IN  (1 <= query.limit
                /\ query.limit < Cardinality(TopLevel(query.page))) =>
                /\ sweep.done
                /\ ExactlyOnce(sweep.ids, TopLevel(query.page))
                /\ InSortOrder(sweep.ids, query.sort, query.order)

-----------------------------------------------------------------------------
(* Properties of cache invalidation (under Spec) *)

\* what the key of every cached top-level list of a page starts with
ListKeyPrefix(page) == TXT_COMMENTS_CURSOR \o <<":">> \o page \o <<":">>

\* the key of the cached statistics of a page
StatsKey(page) == TXT_PAGE_STATS \o <<":">> \o page

\* the pages of the rows that a step adds or changes
WrittenPages ==
    {store'[i].page :
        i \in {j \in RowIds(store') :
                  j > Len(store) \/ store'[j] # store[j]}}

\* the keys of the entries that a step leaves as they were
KeptKeys == {k \in DOMAIN cache \cap DOMAIN cache' : cache'[k] = cache[k]}

\* C3: after a successful create_comment, update_comment or delete_comment
\* on page p has returned, no cached top-level list entry for p that was
\* stored before the write remains.
C3_ListCacheInvalidated ==
    [][\A page \in WrittenPages :
          \A k \in KeptKeys : ~HasPrefix(k, ListKeyPrefix(page))]_vars

\* C4: after a successful create_comment, update_comment or delete_comment
\* on page p has returned, the cached statistics entry of p is invalidated.
C4_StatsCacheInvalidated ==
    [][\A page \in WrittenPages : StatsKey(page) \notin KeptKeys]_vars

-----------------------------------------------------------------------------
(* Properties of the limiter (under SpecLimiter) *)

\* the number of earlier checks for the key that reached redis less than
\* window seconds before the most recent check
EarlierInWindow ==
    Cardinality({i \in 1..Len(lim.earlier) :
                    lim.earlier[i] > lim.time - lim.window})

\* C5: for a limiter with limit L and window W, the (L+1)th check for one
\* key within the window fails with remaining = 0 and a positive
\* retry_after, and a check for that key made after the window has elapsed
\* succeeds (checks that reach redis).
C5_LimiterWindow ==
    (lim.pc = "checked" /\ lim.redis_ok) =>
        /\ EarlierInWindow = lim.limit =>
              /\ ~lim.passed
              /\ lim.info.remaining = 0
              /\ lim.info.retry_after # None
              /\ lim.info.retry_after[1] > 0
        /\ EarlierInWindow = 0 => lim.passed

\* C13: when redis is unreachable or a step of the pipeline fails,
\* _check_rate_limit reports the request as allowed, for every key, limit
\* and window, and reports no retry_after.
C13_LimiterFailsOpen ==
    (lim.pc = "checked" /\ ~lim.redis_ok) =>
        /\ lim.passed
        /\ lim.info.retry_after = None

\* a check that could not reach redis passed, for a key whose sorted set
\* already holds more entries than the limit
C13_Witness ==
    /\ lim.pc = "checked"
    /\ ~lim.redis_ok
    /\ lim.passed
    /\ ZCard(zsets, lim.key) > lim.limit

\* the entries of the most recent check's key whose score lies in its window
EntriesInWindow ==
    IF lim.key \in DOMAIN zsets
    THEN Cardinality({e \in zsets[lim.key].members :
                         e.score > lim.time - lim.window})
    ELSE 0

\* what the statement of C14 says of the result of the most recent check
ResultAsStated ==
    /\ ~lim.passed <=> EntriesInWindow > lim.limit
    /\ lim.info.limit = lim.limit
    /\ lim.info.remaining =
           (IF lim.limit > EntriesInWindow
            THEN lim.limit - EntriesInWindow ELSE 0)
    /\ lim.info.reset_time = lim.time + lim.window
    /\ ~lim.passed => lim.info.retry_after = Some(lim.window)
    /\ lim.passed => lim.info.retry_after = None

\* C14 as stated: every check fails exactly when the number of entries in the
\* key's window after recording the request exceeds the limit, and every
\* check result reports remaining = max(0, limit - count) and reset_time =
\* now + window, a failed one retry_after = window.
C14_EveryCheckResult ==
    (lim.pc = "checked" /\ clock = lim.time) => ResultAsStated

\* C14, amended: a check whose pipeline ran fails exactly when the number of
\* entries in the key's window after recording the request exceeds the
\* limit; its result reports remaining = max(0, limit - count) and
\* reset_time = now + window, and a failed check reports retry_after =
\* window.  A check whose pipeline raised has no count: it passes and
\* reports remaining = limit and reset_time = 0.
C14_LimiterResult ==
    (lim.pc = "checked" /\ clock = lim.time) =>
        IF lim.redis_ok THEN ResultAsStated
        ELSE /\ lim.passed
             /\ lim.info.limit = lim.limit
             /\ lim.info.remaining = lim.limit
             /\ lim.info.reset_time = 0
             /\ lim.info.current_count = None
             /\ lim.info.retry_after = None

\* a failed check: the window holds one entry more than the limit
C14_Witness ==
    /\ lim.pc = "checked"
    /\ lim.redis_ok
    /\ clock = lim.time
    /\ ~lim.passed
    /\ EntriesInWindow = lim.limit + 1
    /\ lim.info.retry_after = Some(lim.window)

-----------------------------------------------------------------------------
(* Properties of the table and of the read queries (under SpecTable) *)

\* the cursors of a request of GET /api/comments: none, or one issued for
\* its sort column
Cursors(sort) == {EmptyText} \cup IssuedCursors(sort)

\* the response to query q with a cursor
Listing(q, cursor) ==
    get_comments([page |-> q.page, cursor |-> cursor, limit |-> q.limit,
                  sort |-> q.sort, order |-> q.order])

\* a request of GET /api/comments/{id}/replies
ReplyRequests ==
    [parent_id : 1..MaxComments,
     cursor : {EmptyText} \cup IssuedCursors(COL_CREATED_AT),
     limit : Limits]

\* the ids a response shows (none in an error response)
ShownIds(r) ==
    IF r.outcome = "ok"
    THEN {r.result.comments[k].id : k \in 1..Len(r.result.comments)}
    ELSE {}

\* the rows of a page other than x that are not deleted
LiveOthers(page, x) ==
    {i \in Ids \ {x} : store[i].page = page /\ store[i].is_deleted = FALSE}

\* no read shows or counts row x
Hidden(x) ==
    /\ get_comment_by_id(x) = None
    /\ \A q \in Queries :
          \A cursor \in Cursors(q.sort) :
              LET r == Listing(q, cursor)
              IN  /\ x \notin ShownIds(r)
                  /\ r.outcome = "ok" =>
                         \A k \in 1..Len(r.result.comments) :
                             r.result.comments[k].reply_count =
                                 Cardinality({j \in Ids \ {x} :
                                     /\ store[j].parent_id =
                                            Some(r.result.comments[k].id)
                                     /\ store[j].is_deleted = FALSE})
    /\ \A query \in ReplyRequests : x \notin ShownIds(get_replies(query))
    /\ LET stats == get_page_stats(store[x].page).result
       IN  /\ stats.total_comments =
                  Cardinality(LiveOthers(store[x].page, x))
           /\ stats.top_level_comments =
                  Cardinality({i \in LiveOthers(store[x].page, x) :
                                  store[i].parent_id = None})

\* C2: delete_comment(X), when it succeeds, leaves the row X in the store
\* with is_deleted = true; and as long as X is deleted, get_comment_by_id(X)
\* finds nothing, X is in no result of get_comments or get_replies, and X is
\* counted neither in get_page_stats nor in a reply_count.
C2_SoftDelete ==
    \A x \in Ids :
        /\ LET r == delete_comment(x, "none")
           IN  /\ r.outcome = "Deleted"
               /\ Len(r.store) = Len(store)
               /\ r.store[x] = [store[x] EXCEPT !.is_deleted = TRUE]
        /\ store[x].is_deleted => Hidden(x)

\* a deleted reply, found by no lookup, whose parent is listed with no reply
C2_Witness ==
    \E x \in Ids :
        /\ store[x].is_deleted
        /\ store[x].parent_id # None
        /\ get_comment_by_id(x) = None
        /\ \E q \in DefaultQueries :
               LET r == Listing(q, EmptyText)
               IN  /\ r.outcome = "ok"
                   /\ Len(r.result.comments) > 0
                   /\ r.result.comments[1].id = store[x].parent_id[1]
                   /\ r.result.comments[1].reply_count = 0

C7_ParentEarlierSamePage ==
    \A i \in Ids :
        store[i].parent_id # None =>
            /\ store[i].parent_id[1] \in Ids
            /\ store[i].parent_id[1] < i
            /\ store[store[i].parent_id[1]].page = store[i].page

\* a reply whose content was updated, to a parent that was deleted after it
C7_Witness ==
    \E i \in Ids :
        /\ store[i].parent_id # None
        /\ store[i].content = C_DATE
        /\ store[store[i].parent_id[1]].is_deleted
        /\ store[store[i].parent_id[1]].created_at < store[i].created_at

\* the non-deleted rows of a page
Live(page) ==
    {i \in Ids : store[i].page = page /\ store[i].is_deleted = FALSE}

\* C8: get_page_stats gives total_comments == top_level_comments + replies,
\* where total_comments is the number of non-deleted comments of the page,
\* top_level_comments the number of those with no parent and replies the
\* number of those with a parent.
C8_StatsIdentity ==
    \A page \in Pages :
        LET stats == get_page_stats(page).result
        IN  /\ stats.total_comments = stats.top_level_comments + stats.replies
            /\ stats.total_comments = Cardinality(Live(page))
            /\ stats.top_level_comments =
                   Cardinality({i \in Live(page) : store[i].parent_id = None})
            /\ stats.replies =
                   Cardinality({i \in Live(page) : store[i].parent_id # None})

\* a page whose only top-level comment is deleted and whose reply is not
C8_Witness ==
    \E page \in Pages :
        /\ get_page_stats(page).result =
               [total_comments |-> 1, top_level_comments |-> 0, replies |-> 1]
        /\ \E i \in Ids : store[i].page = page /\ store[i].is_deleted

\* C9: every item of a get_comments response has reply_count equal to the
\* number of stored, non-deleted comments whose parent_id is the item's id;
\* with top-level A and its reply B on page p, get_comments(page=p) returns
\* the one item A with reply_count = 1.
C9_ReplyCount ==
    \A q \in Queries :
        /\ \A cursor \in Cursors(q.sort) :
              LET r == Listing(q, cursor)
              IN  r.outcome = "ok" =>
                      \A k \in 1..Len(r.result.comments) :
                          r.result.comments[k].reply_count =
                              Cardinality({j \in Ids :
                                  /\ store[j].parent_id # None
                                  /\ store[j].parent_id[1] =
                                         r.result.comments[k].id
                                  /\ store[j].is_deleted = FALSE})
        /\ (/\ Len(store) = 2
            /\ Live(q.page) = {1, 2}
            /\ store[1].parent_id = None
            /\ store[2].parent_id = Some(1)) =>
               LET r == Listing(q, EmptyText)
               IN  /\ r.outcome = "ok"
                   /\ Len(r.result.comments) = 1
                   /\ r.result.comments[1].id = 1
                   /\ r.result.comments[1].reply_count = 1

\* A and its reply B on page p, listed as the one item A with one reply
C9_Witness ==
    /\ Len(store) = 2
    /\ Live(<<"p">>) = {1, 2}
    /\ store[2].parent_id = Some(1)
    /\ LET r == get_comments([page |-> <<"p">>, cursor |-> EmptyText,
                              limit |-> 1, sort |-> COL_CREATED_AT,
                              order |-> DESC])
       IN  /\ r.outcome = "ok"
           /\ Len(r.result.comments) = 1
           /\ r.result.comments[1].id = 1
           /\ r.result.comments[1].reply_count = 1

-----------------------------------------------------------------------------
(* Cursors the server did not issue *)

\* the response to a replies query with a cursor
Replies(parent_id, limit, cursor) ==
    get_replies([parent_id |-> parent_id, cursor |-> cursor, limit |-> limit])

\* two responses are the same outcome and, if a page, the same page
SameResponse(r1, r2) ==
    /\ r1.outcome = r2.outcome
    /\ r1.outcome = "ok" => r1.result = r2.result

\* C11: get_comments and get_replies with a cursor that is malformed or that
\* decodes to an object lacking a usable value or id answer as the same call
\* with no cursor does: the first page, never an error or another page.
C11_BadCursorIsNoCursor ==
    \A cursor \in GarbageCursors \cup PartialCursors :
        /\ \A q \in Queries :
              SameResponse(Listing(q, cursor), Listing(q, EmptyText))
        /\ \A parent_id \in 1..MaxComments, limit \in Limits :
              SameResponse(Replies(parent_id, limit, cursor),
                           Replies(parent_id, limit, EmptyText))

\* C12: _decode_cursor never raises, and for every text that is not base64,
\* not JSON, or JSON that is not an object it returns None.
C12_DecodeGarbageIsNone ==
    codec.pc = "answered" =>
        /\ codec.decoded # PyRaise
        /\ codec.cursor \in GarbageCursors => codec.decoded = PyNone

\* the base64 of a JSON array was decoded, and the answer was None
C12_Witness ==
    /\ codec.pc = "answered"
    /\ codec.cursor = Base64JsonOther("array")
    /\ codec.decoded = PyNone

-----------------------------------------------------------------------------
(* The content checks (under SpecGate) *)

\* the number of blacklist terms the content contains, whatever the case of
\* the letters of either
BlacklistTerms(content) ==
    Cardinality({i \in 1..Len(spam_keywords) :
                    Contains(Lower(content), Lower(spam_keywords[i]))})

\* C15: a submitted content is rejected exactly when it contains at least 2
\* distinct blacklist terms, matched case-insensitively; a content with 0 or
\* 1 blacklisted term is accepted.
C15_SpamGate ==
    gate.pc \in {"rejected", "accepted"} =>
        (gate.pc = "rejected" <=> BlacklistTerms(gate.content) >= 2)

-----------------------------------------------------------------------------
(* The cache as an optimization (under Spec) *)

\* the key of the cached first page of a top-level list
ListKey(q) ==
    ListKeyPrefix(q.page) \o <<":">> \o Decimal(q.limit) \o <<":">> \o q.sort
        \o <<":">> \o q.order \o <<":">> \o TXT_TRUE

\* the query of a top-level list, with a cursor
ListQuery(q, cursor) ==
    [page |-> q.page, cursor |-> cursor, limit |-> q.limit, sort |-> q.sort,
     order |-> q.order]

\* C16: whatever the cache holds (nothing, as when it is disabled or its
\* entries were evicted, or entries stored by earlier reads), every read
\* returns the result computed from the current store; so a read with no
\* write on its page since its entry was stored returns the same result as
\* the read without the cache.
C16_CacheIsOptimization ==
    /\ \A q \in DefaultQueries :
          \A cursor \in Cursors(q.sort) :
              SameResponse(get_comments(ListQuery(q, cursor)),
                           get_comments_query(ListQuery(q, cursor)))
    /\ \A query \in ReplyRequests :
          SameResponse(get_replies(query), get_replies_query(query))
    /\ \A page \in Pages :
          get_page_stats(page).result = get_page_stats_query(page)

\* the first page of a list with a comment on it is cached, no write has
\* changed it since, and the read returns that page
C16_Witness ==
    \E q \in DefaultQueries :
        /\ RedisGet(ListKey(q)) # None
        /\ get_comments(ListQuery(q, EmptyText)).outcome = "ok"
        /\ get_comments(ListQuery(q, EmptyText)).result =
               RedisGet(ListKey(q))[1]
        /\ Len(get_comments(ListQuery(q, EmptyText)).result.comments) > 0

-----------------------------------------------------------------------------
(* The cache keys (under SpecKeyed) *)

\* C17: two read queries that differ in a discriminating input (page,
\* cursor, limit, sort, order, or parent id for replies) never have the same
\* cache key, also when a text holds the separator character.
C17_KeysCollisionFree ==
    keyed.pc = "keyed" =>
        \A q \in KeyQueries : q # keyed.query => QueryCacheKey(q) # keyed.key


\* C18: whenever create_comment reports a persistence error (adding,
\* committing or reloading the row failed), the table holds no row from that
\* request: it is the table the request found.
C18_NoPartialWrite ==
    \A comment_data \in CreateRequests, address \in ClientAddresses,
       net \in CreateNets, fault \in DbFaults :
        LET r == create_comment(comment_data, address, UA_TEST, net, fault)
        IN  r.outcome = "DatabaseException" => Rows(r.store) = Rows(store)


-----------------------------------------------------------------------------
(* Properties of POST /api/comments (under SpecHttp and SpecTable) *)

\* C19: whenever a rate-limit check fails for a request, the client receives
\* a 429 response with a Retry-After header, and no comment is created for
\* that request.
C19_RateLimitedResponse ==
    (http.pc = "answered" /\ http.limited) =>
        /\ http.response.status = 429
        /\ http.response.retry_after # None
        /\ Cardinality(Ids) = http.rows


\* C20: a comment creation rejected for a bad parent (absent, soft-deleted or
\* on another page) or for spam content is answered with 400, and POST
\* /api/comments, which addresses no comment by its path, never answers 404.
C20_ErrorTaxonomy ==
    \A ip \in ClientAddresses, comment_data \in CreateRequests :
        LET r == post_comments(ip, UA_TEST, comment_data,
                               NetAnswers(ApiTimeout), "none", TRUE, TRUE)
            parent_id == comment_data.parent_id
            bad_parent ==
                /\ parent_id # None
                /\ \/ parent_id[1] \notin Ids
                   \/ store[parent_id[1]].is_deleted
                   \/ store[parent_id[1]].page # comment_data.page
            spam == SpamContent[comment_data.content]
        IN  /\ (bad_parent \/ spam) => r.response.status = 400
            /\ r.response.status # 404


-----------------------------------------------------------------------------
(* Properties of the location lookup (under SpecLocation) *)

\* C21: get_location never raises and returns a string whatever the cache,
\* redis, the client and the API do, and whatever other calls do while it
\* waits; it sends at most 3 requests to the API; when all 3 requests fail it
\* returns "未知"; and create_comment is never rejected because of the
\* lookup (when it fails, it is the INSERT that failed, for an ip_address
\* that is no address).
C21_LocationNeverFails ==
    \A i \in Callers :
        /\ loc[i].attempts <= 3
        /\ (loc[i].pc = "done" /\ loc[i].looked_up) =>
               /\ ~loc[i].raises
               /\ loc[i].location \in Locations \cup {TXT_CITY}
               /\ (/\ loc[i].attempts = 3
                   /\ \A k \in 1..Len(loc[i].answers) :
                          loc[i].answers[k] # "ok")
                      => loc[i].location = TXT_UNKNOWN
               /\ loc[i].outcome = "DatabaseException"
                      => InetOfText(loc[i].ip).kind = "error"

\* a timeout, a body that is no JSON and a status other than 200 used up the
\* three requests of a call, and its comment was created
C21_Witness ==
    \E i \in Callers :
        /\ loc[i].pc = "done"
        /\ loc[i].answers = <<"timeout", "malformed", "status">>
        /\ loc[i].attempts = 3
        /\ loc[i].location = TXT_UNKNOWN
        /\ loc[i].outcome = "Created"

-----------------------------------------------------------------------------
(* Properties of the cache over time (under SpecStale) *)

\* the key get_replies caches the first page of a parent's replies under
RepliesKey(parent_id, limit) ==
    generate_cache_key(TXT_REPLIES,
        <<Decimal(parent_id), CursorText(EmptyText), Decimal(limit)>>)

\* the time to live the claim gives for the result cached under a key
TtlOf(k) == IF HasPrefix(k, TXT_PAGE_STATS \o <<":">>) THEN 600 ELSE 300

\* C22: a cached list of comments or of replies is not served more than 300
\* seconds after it was computed, and cached statistics not more than 600
\* seconds after: an entry is written with an expiry at most its time to live
\* ahead, a lookup serves only an entry that has not expired, and a read that
\* is not served from the cache returns what the store gives now.
C22_StalenessBounded ==
    /\ \A k \in DOMAIN cache :
          ~HasPrefix(k, TXT_LOCATION \o <<":">>)
              => cache[k].expires <= clock + TtlOf(k)
    /\ \A q \in DefaultQueries :
          LET served == _get_from_cache(ListKey(q))
          IN  /\ served # None => clock < cache[ListKey(q)].expires
              /\ served = None =>
                     SameResponse(get_comments(ListQuery(q, EmptyText)),
                                  get_comments_query(ListQuery(q, EmptyText)))
    /\ \A parent_id \in 1..MaxComments, limit \in Limits :
          LET served == _get_from_cache(RepliesKey(parent_id, limit))
          IN  /\ served # None
                     => clock < cache[RepliesKey(parent_id, limit)].expires
              /\ served = None =>
                     SameResponse(Replies(parent_id, limit, EmptyText),
                                  get_replies_query(
                                      [parent_id |-> parent_id,
                                       cursor |-> EmptyText,
                                       limit |-> limit]))
    /\ \A page \in Pages :
          LET served == _get_from_cache(StatsKey(page))
          IN  /\ served # None => clock < cache[StatsKey(page)].expires
              /\ served = None =>
                     get_page_stats(page).result = get_page_stats_query(page)

\* a list cached at second 0 is out of date and in its last second, and the
\* read of that second returns the list the store gives
C22_Witness ==
    \E q \in DefaultQueries :
        /\ clock = 299
        /\ ListKey(q) \in DOMAIN cache
        /\ cache[ListKey(q)].expires = 300
        /\ get_comments_query(ListQuery(q, EmptyText)).result
               # cache[ListKey(q)].value
        /\ get_comments(ListQuery(q, EmptyText)).result
               = get_comments_query(ListQuery(q, EmptyText)).result

-----------------------------------------------------------------------------
(* Properties of the stored content (under SpecMarkup) *)

\* what html.escape writes for the characters it replaces
Entities ==
    { <<"&", "a", "m", "p", ";">>, <<"&", "l", "t", ";">>,
      <<"&", "g", "t", ";">>, <<"&", "q", "u", "o", "t", ";">>,
      <<"&", "#", "x", "2", "7", ";">> }

\* no markup-significant character of s stands for itself
IsEscaped(s) ==
    \A i \in 1..Len(s) :
        /\ s[i] \notin {"<", ">", "\"", "'"}
        /\ s[i] = "&" =>
               \E e \in Entities :
                   /\ i + Len(e) - 1 <= Len(s)
                   /\ SubSeq(s, i, i + Len(e) - 1) = e

\* C23: the content of every stored comment is the escaped form of a
\* submitted text trimmed: no "<", ">", quote or apostrophe is in it, every
\* "&" in it starts an entity, and the row holds no other copy of the text.
C23_StoredContentEscaped ==
    \A i \in Ids :
        /\ \E c \in Contents \cup MarkupContents :
               store[i].content = html_escape(Strip(c))
        /\ IsEscaped(store[i].content)
        /\ DOMAIN store[i]
               = {"page", "email", "email_hash", "username", "content",
                  "parent_id", "is_deleted", "created_at", "updated_at",
                  "ip_address", "user_agent", "system_type", "location"}
        /\ \A column \in {"page", "email", "email_hash", "username",
                           "user_agent", "system_type", "location"} :
               store[i][column] \notin MarkupContents

\* one comment was created with markup between spaces and another was
\* updated to a text that read as escaped already
C23_Witness ==
    /\ Len(store) = 2
    /\ store[1].content
           = <<"&", "l", "t", ";", "b", "&", "g", "t", ";", "a", "&", "a",
               "m", "p", ";", "b", "&", "q", "u", "o", "t", ";", "c", "&",
               "#", "x", "2", "7", ";", "d", "&", "l", "t", ";", "/", "b",
               "&", "g", "t", ";">>
    /\ store[2].content
           = <<"&", "a", "m", "p", ";", "a", "m", "p", ";", " ", "&", "a",
               "m", "p", ";", "l", "t", ";", "o", "k", "&", "a", "m", "p",
               ";", "g", "t", ";">>

-----------------------------------------------------------------------------
(* Properties of the administrator's update (under SpecAdmin) *)

\* row x is found by its id, listed, and counted
Visible(x) ==
    /\ get_comment_by_id(x) = Some(x)
    /\ store[x].parent_id = None =>
           \A q \in Queries :
               (q.page = store[x].page /\ q.limit = MaxLimit)
                   => x \in ShownIds(Listing(q, EmptyText))
    /\ store[x].parent_id # None =>
           x \in ShownIds(Replies(store[x].parent_id[1], MaxLimit, EmptyText))
    /\ LET stats == get_page_stats(store[x].page).result
       IN  /\ x \in Live(store[x].page)
           /\ stats.total_comments = Cardinality(Live(store[x].page))

\* C24: update_comment on a row that exists is not rejected for its content
\* or for the parent of the row: with a working database it is accepted, the
\* stored content becomes the new content, also one with two blacklisted
\* terms, and is_deleted becomes what was sent, TRUE or FALSE; and every row
\* whose is_deleted is FALSE, so also one an update has just restored, is
\* found by get_comment_by_id, listed and counted.
C24_AdminUpdateUnchecked ==
    \A x \in Ids :
        /\ \A update_data \in AdminUpdates :
              LET r == update_comment(x, update_data, "none")
              IN  /\ r.outcome = "Updated"
                  /\ Len(r.store) = Len(store)
                  /\ r.store[x].content =
                         IF update_data.content = None
                         THEN store[x].content
                         ELSE sanitize_content(update_data.content[1])
                  /\ r.store[x].is_deleted =
                         IF update_data.is_deleted = None
                         THEN store[x].is_deleted
                         ELSE update_data.is_deleted[1]
        /\ ~store[x].is_deleted => Visible(x)

\* a reply whose parent is deleted holds a content with two blacklisted
\* terms, is not deleted, and is found, listed and counted
C24_Witness ==
    \E x \in Ids :
        /\ check_spam_content(C_LINKS)
        /\ store[x].content = sanitize_content(C_LINKS)
        /\ ~store[x].is_deleted
        /\ store[x].parent_id # None
        /\ store[store[x].parent_id[1]].is_deleted
        /\ Visible(x)

-----------------------------------------------------------------------------
(* Properties of the email hash (under SpecEmail) *)

\* each email submitted, lower-cased and trimmed, and the digest of that
NormalizedEmail == [e \in Emails |-> Strip(Lower(e))]
NormalizedDigest == [e \in Emails |-> md5_hexdigest(NormalizedEmail[e])]

\* C25: the email_hash of every stored comment is the digest of its email
\* lower-cased and trimmed, whatever updates and deletions came after its
\* creation; and two emails that are equal once lower-cased and trimmed have
\* the same hash, as " Test@Example.com " and "test@example.com" have.
C25_EmailHash ==
    /\ \A i \in Ids :
          store[i].email_hash = NormalizedDigest[store[i].email]
    /\ \A e1 \in Emails, e2 \in Emails :
          NormalizedEmail[e1] = NormalizedEmail[e2]
              => EmailHashOf(e1) = EmailHashOf(e2)
    /\ EmailHashOf(EMAIL_TEST_RAW) = EmailHashOf(EMAIL_TEST)

\* two comments, sent with " Test@Example.com " and with "test@example.com",
\* are stored with one hash, and the first was deleted after
C25_Witness ==
    /\ Ids = {1, 2}
    /\ store[1].email = EMAIL_TEST_RAW
    /\ store[2].email = EMAIL_TEST
    /\ store[1].email_hash = store[2].email_hash
    /\ store[1].is_deleted

-----------------------------------------------------------------------------
(* Properties of the client IP (under SpecIp) *)

\* the text is an address of a private range (10.0.0.0/8, 172.16.0.0/12,
\* 192.168.0.0/16)
InPrivateRange(ip) ==
    LET ip_obj == ip_address(ip)
    IN  /\ ip_obj # None
        /\ ip_obj[1].version = 4
        /\ LET o == ip_obj[1].octets
           IN  \/ o[1] = 10
               \/ o[1] = 172 /\ o[2] \in 16..31
               \/ o[1] = 192 /\ o[2] = 168

\* the text is a loopback address (127.0.0.0/8, ::1) or names one
IsLoopback(ip) ==
    LET ip_obj == ip_address(ip)
    IN  \/ ip = TXT_LOCALHOST
        \/ /\ ip_obj # None
           /\ \/ /\ ip_obj[1].version = 6
                 /\ ip_obj[1].words = <<0, 0, 0, 0, 0, 0, 0, 1>>
              \/ ip_obj[1].version = 4 /\ ip_obj[1].octets[1] = 127

\* the first value of header number k, if the header holds one that is
\* neither a private nor a loopback address
Accepted(k) ==
    LET ip == ipreq.headers[ip_headers[k]]
    IN  IF ip # None /\ FirstValue(ip[1]) # <<>>
           /\ ~InPrivateRange(FirstValue(ip[1]))
           /\ ~IsLoopback(FirstValue(ip[1]))
        THEN Some(FirstValue(ip[1]))
        ELSE None

\* C26: the client IP the limiter's key is made of and the one stored with
\* the comment are the same; it is the first comma-separated value of the
\* first forwarding header, in the order of the list, whose value is neither
\* a private-range nor a loopback address, and the address of the peer if
\* there is no such header; so no private or loopback address of a header is
\* the client IP.
C26_ClientIp ==
    ipreq.pc = "used" =>
        LET hits == {k \in 1..Len(ip_headers) : Accepted(k) # None}
            first == CHOOSE k \in hits : \A j \in hits : k <= j
            expected == IF hits = {} THEN ipreq.peer ELSE Accepted(first)[1]
        IN  /\ ipreq.ip_address = expected
            /\ ipreq.key = _get_rate_limit_key(expected, <<"i", "p">>)
            /\ \A k \in 1..Len(ip_headers) :
                  LET ip == ipreq.headers[ip_headers[k]]
                  IN  (/\ ip # None
                       /\ \/ InPrivateRange(FirstValue(ip[1]))
                          \/ IsLoopback(FirstValue(ip[1]))
                       /\ ipreq.peer # FirstValue(ip[1]))
                          => ipreq.ip_address # FirstValue(ip[1])

-----------------------------------------------------------------------------
(* Properties of the session of a request (under SpecTxn) *)

\* C27: a create, update or delete that ends before its commit has
\* completed, by an exception or cancelled while it waits, leaves the table
\* as it was when the request began, and so does every request for as long
\* as it has not committed: no row and no field of a row is changed by it.
C27_AbortRollsBack ==
    /\ txn.pc \in {"begun", "await", "write", "commit", "failed", "aborted"}
           => Rows(store) = Rows(txn.before)
    /\ txn.pc \in {"failed", "aborted"} => txn.work = store
    /\ (txn.pc = "idle" /\ txn.last \in {"failed", "aborted"})
           => Rows(store) = Rows(txn.before)

\* an update of the content and of is_deleted has failed at its second
\* UPDATE, after the first had run, and the row is as it was
C27_Witness ==
    /\ txn.pc = "failed"
    /\ txn.op.kind = "update"
    /\ Len(Statements(txn.op)) = 2
    /\ txn.step = 1
    /\ txn.op.comment_id \in Ids
    /\ store[txn.op.comment_id].content
           # SanitizedContent[txn.op.update_data.content[1]]
    /\ store = txn.before

-----------------------------------------------------------------------------
(* Properties of the replies after a write (under Spec) *)

\* the replies of a comment that are not deleted
LiveReplies(parent_id) ==
    {i \in Ids : store[i].parent_id = Some(parent_id) /\ ~store[i].is_deleted}

\* C28: whatever was cached before, get_replies(A) shows the replies of A as
\* the table holds them now: those that were created or restored and none
\* that was deleted; with a limit that takes them all it shows exactly the
\* replies of A that are not deleted.
C28_RepliesReflectWrites ==
    \A parent_id \in Ids, limit \in Limits :
        LET r == Replies(parent_id, limit, EmptyText)
        IN  /\ r.outcome = "ok"
            /\ ShownIds(r) \subseteq LiveReplies(parent_id)
            /\ Len(r.result.comments) =
                   IF Cardinality(LiveReplies(parent_id)) < limit
                   THEN Cardinality(LiveReplies(parent_id))
                   ELSE limit

\* get_replies(1) was cached when comment 1 had no reply; reply 2 was
\* created after, and get_replies(1) returns it
C28_Witness ==
    \E limit \in Limits :
        /\ RepliesKey(1, limit) \in DOMAIN cache
        /\ Len(cache[RepliesKey(1, limit)].value.comments) = 0
        /\ Len(store) = 2
        /\ LiveReplies(1) = {2}
        /\ ShownIds(Replies(1, limit, EmptyText)) = {2}

-----------------------------------------------------------------------------
(* Properties of the page boundary (under SpecTable) *)

\* C29: when the last row of the first page and the row after it, in ORDER
\* BY (sort column, id) of the direction asked for, have the same value in
\* the sort column, NULL included, the page asked for with the cursor of the
\* first page is the rows that follow, from the very next one on: none is
\* left out and none comes twice. This for ascending and descending order
\* and for every attribute a request can sort by.
C29_TieAtPageBoundary ==
    \A page \in Pages, limit \in Limits, sort \in CommentColumns,
       order \in {ASC, DESC} :
        LET query == [page |-> page, cursor |-> EmptyText, limit |-> limit,
                      sort |-> sort, order |-> order]
            all == OrderBy(TopLevel(page), sort, order)
            first == get_comments_query(query)
        IN  (/\ Len(all) > limit
             /\ ColumnValue(all[limit], sort)
                    = ColumnValue(all[limit + 1], sort))
            => /\ first.outcome = "ok"
               /\ ItemIds(first.result) = SubSeq(all, 1, limit)
               /\ first.result.next_cursor # None
               /\ LET second ==
                          get_comments_query(
                              [query EXCEPT
                                  !.cursor = first.result.next_cursor[1]])
                  IN  /\ second.outcome = "ok"
                      /\ ItemIds(second.result) =
                             SubSeq(all, limit + 1,
                                    IF Len(all) < 2 * limit THEN Len(all)
                                    ELSE 2 * limit)

-----------------------------------------------------------------------------
(* Properties of a page (under SpecTable) *)

\* a page of `limit` made of the rows `matching` in the order given: at most
\* limit items; has_next exactly if a matching row comes after the last
\* item; a cursor exactly if has_next, which decodes to the sort value and
\* the id of the last item
PageIsRight(result, limit, matching, column, order) ==
    LET ids == ItemIds(result)
        last == ids[Len(ids)]
        further == Len(ids) > 0
                   /\ \E j \in matching : RowBefore(last, j, column, order)
    IN  /\ Len(ids) <= limit
        /\ result.has_next <=> further
        /\ result.next_cursor # None <=> result.has_next
        /\ result.has_next =>
               /\ result.next_cursor[1] # EmptyText
               /\ _decode_cursor(result.next_cursor[1])
                      = PyDict(ColumnValue(last, column), PyInt(last))

\* C30: every page get_comments and get_replies return, with or without a
\* cursor, holds at most limit items, has has_next true exactly when a
\* further matching row comes after its last item, and has a next_cursor
\* exactly when has_next is true, which then decodes to the sort value and
\* the id of the last item.
C30_PageShape ==
    /\ \A page \in Pages, limit \in Limits, sort \in CommentColumns,
          order \in {ASC, DESC} :
           \A cursor \in Cursors(sort) :
               LET r == get_comments_query(
                            [page |-> page, cursor |-> cursor,
                             limit |-> limit, sort |-> sort, order |-> order])
               IN  r.outcome = "ok" =>
                       PageIsRight(r.result, limit, TopLevel(page), sort,
                                   order)
    /\ \A query \in ReplyRequests :
           LET r == get_replies_query(query)
           IN  r.outcome = "ok" =>
                   PageIsRight(r.result, query.limit,
                               LiveReplies(query.parent_id), COL_CREATED_AT,
                               ASC)

-----------------------------------------------------------------------------
(* A thread: a comment, its replies and their replies *)

\* the requests that build a thread: top-level comments and replies to any
\* row, replies to replies included
ThreadRequests ==
    [page : Pages, email : {EMAIL_TEST}, username : {USERNAME_TEST},
     content : {C_PLAIN},
     parent_id : {None} \cup {Some(n) : n \in 1..MaxThread}]

\* a create_comment for a client at a local address: it sends no request
\* to the API and takes one step
ThreadCreate ==
    \E comment_data \in ThreadRequests, address \in {IP_LOOPBACK},
       fault \in DbFaults :
        LET r == create_comment(comment_data, address, UA_TEST, NoNet, fault)
        IN  /\ Len(r.store) <= MaxThread
            /\ store' = r.store
            /\ cache' = r.cache
            /\ UNCHANGED <<clock, ticks, zsets, lim, codec, gate, keyed, http,
                 helpers>>

\* a create_comment for a client at a public address: it waits for the API
\* while other requests run and time passes
ThreadBegin ==
    CreateBegin(1, {r \in ThreadRequests : r.parent_id # None}, {IP_PUBLIC},
                {Net(FALSE, FALSE, TRUE, <<>>)}, {"none"}, MaxThread)

ThreadAnswer == CreateResume(1, {ApiOk(CityBody)}, {"none"}, MaxThread)

ThreadEnd == CreateEnd(1)

ThreadDelete ==
    \E comment_id \in 1..MaxThread, fault \in DbFaults :
        LET r == delete_comment(comment_id, fault)
        IN  /\ store' = r.store
            /\ cache' = r.cache
            /\ UNCHANGED <<clock, ticks, zsets, lim, codec, gate, keyed, http,
                 helpers>>

ThreadNext ==
    \/ ThreadCreate
    \/ ThreadBegin
    \/ ThreadAnswer
    \/ ThreadEnd
    \/ ThreadDelete
    \/ Tick

SpecThread == Init /\ [][ThreadNext]_vars

\* the responses a client collects that calls get_replies for a parent with
\* `cursor` and then with each next_cursor it is given, until has_next is
\* false, every call missing the cache; done: the sweep ended with has_next
\* false (and not with an error response)
RECURSIVE RepliesSweep(_, _, _)
RepliesSweep(parent_id, limit, cursor) ==
    LET r == get_replies_query([parent_id |-> parent_id, cursor |-> cursor,
                                limit |-> limit])
    IN  IF r.outcome # "ok" THEN [done |-> FALSE, items |-> <<>>]
        ELSE IF ~r.result.has_next
        THEN [done |-> TRUE, items |-> r.result.comments]
        ELSE IF r.result.next_cursor = None
        THEN [done |-> FALSE, items |-> r.result.comments]
        ELSE LET rest == RepliesSweep(parent_id, limit,
                                      r.result.next_cursor[1])
             IN  [done |-> rest.done,
                  items |-> r.result.comments \o rest.items]

\* the ids of a sequence of response items
IdsOf(items) == [k \in 1..Len(items) |-> items[k].id]

\* C31: with no write during the sweep, get_replies(P) without a cursor and
\* then with each next_cursor returned, every call missing the cache,
\* yields exactly the non-deleted rows whose parent_id is P (direct children
\* only, whatever replies they have themselves), each once, oldest first by
\* created_at and then id, and every entry reports reply_count = 0.
C31_RepliesSweep ==
    \A parent_id \in 1..MaxThread, limit \in Limits :
        LET sweep == RepliesSweep(parent_id, limit, EmptyText)
            ids == IdsOf(sweep.items)
        IN  /\ sweep.done
            /\ ExactlyOnce(ids, LiveReplies(parent_id))
            /\ \A a, b \in 1..Len(ids) :
                   a < b => RowBefore(ids[a], ids[b], COL_CREATED_AT, ASC)
            /\ \A k \in 1..Len(sweep.items) :
                   sweep.items[k].reply_count = 0

\* comment 1 has two live replies; the one with the higher id is the older
\* (its call began first and waited for the API while the other was
\* created), and a sweep with limit 1 takes two calls and returns both, the
\* older first
C31_Witness ==
    /\ Ids = 1..MaxThread
    /\ store[2].parent_id = Some(1) /\ store[3].parent_id = Some(1)
    /\ ~store[2].is_deleted /\ ~store[3].is_deleted
    /\ store[3].created_at < store[2].created_at
    /\ IdsOf(RepliesSweep(1, 1, EmptyText).items) = <<3, 2>>

-----------------------------------------------------------------------------
(* Properties of one call of create_comment (under SpecCall) *)

CallNext ==
    \/ CallBegin
    \/ CallCheckParent
    \/ CallCheckSpam
    \/ CallEnrich
    \/ CallAnswer
    \/ CallPersist
    \/ CallClearCache
    \/ CallEnd
    \/ CallDelete

SpecCall == Init /\ [][CallNext]_vars

\* s is the beginning of t
IsPrefix(s, t) == Len(s) <= Len(t) /\ s = SubSeq(t, 1, Len(s))

\* the steps of the call in the order parent check, spam check, enrichment,
\* persist, cache invalidation; a call that has ended Rejected (not found,
\* or validation) has left the table as it was, has cleared no cache entry
\* and has made no location lookup
CallInOrder ==
    /\ IsPrefix(call.steps, <<"check_parent", "check_spam", "enrich",
                              "persist", "clear_cache">>)
    /\ (call.pc = "done"
           /\ call.outcome \in {"NotFoundError", "ValidationException"})
          => /\ store = call.before
             /\ cache = call.cache_before
             /\ call.steps \in {<<"check_parent">>,
                                <<"check_parent", "check_spam">>}

\* C32 as stated: every call of create_comment ends Created or Rejected,
\* its steps are in the order parent check, spam check, enrichment, persist,
\* cache invalidation, and a call that ends Rejected leaves the store
\* unchanged, invalidates no cache entry and makes no location lookup.
C32_CreatedOrRejected ==
    /\ CallInOrder
    /\ call.pc = "done" =>
           call.outcome \in {"Created", "NotFoundError",
                             "ValidationException"}

\* C32, amended: every call of create_comment ends Created, Rejected or
\* with the persistence error (Created only after all five steps, the
\* persistence error only out of a step that talks to the database, the
\* parent check or the persist step); its steps are in the
\* order parent check, spam check, enrichment, persist, cache invalidation,
\* and a call that ends Rejected leaves the store unchanged, invalidates no
\* cache entry and makes no location lookup.
C32_CreatedRejectedOrFailed ==
    /\ CallInOrder
    /\ call.pc = "done" =>
           /\ call.outcome \in {"Created", "NotFoundError",
                                "ValidationException", "DatabaseException"}
           /\ call.outcome = "Created" => Len(call.steps) = 5
           /\ call.outcome = "DatabaseException" =>
                  call.steps[Len(call.steps)] \in {"check_parent", "persist"}

\* a reply to a live comment of the same page, sent from a public address,
\* has passed the parent check and has ended Rejected for its content
C32_Witness ==
    /\ call.pc = "done"
    /\ call.outcome = "ValidationException"
    /\ call.comment_data.parent_id = Some(1)
    /\ call.ip_address = IP_PUBLIC
    /\ call.steps = <<"check_parent", "check_spam">>
    /\ Len(store) = 1

-----------------------------------------------------------------------------
(* Properties of concurrent limiter checks (under SpecInstances) *)

InitInstances ==
    /\ TableInit
    /\ zsets = <<>>
    /\ lim = LimIdle(1, 1)
    /\ codec = CodecIdle
    /\ gate = GateIdle
    /\ keyed = KeyedIdle
    /\ http = HttpIdle
    /\ loc = LocIdle /\ env = PlainEnvironment /\ ipreq = IpIdle /\ txn = TxnIdle
    /\ call = CallIdle
    /\ reader = ReaderIdle
    /\ mw = MwIdle
    /\ InstsInit

InstancesNext == InstReadTime \/ InstExecute \/ LimiterTick

SpecInstances == InitInstances /\ [][InstancesNext]_vars

\* the checks that passed with a time in the window that ends at t
PassedInWindow(t) ==
    {n \in 1..Len(insts.log) :
        /\ insts.log[n].passed
        /\ insts.log[n].time > t - insts.window
        /\ insts.log[n].time <= t}

\* C33: for every interleaving of the checks of several instances on one
\* key, no check is seen half done (a sorted set with a record has its
\* expiry, and the count of a check includes its own record), and the
\* checks that pass with a time inside any one trailing window are never
\* more than the limit.
C33_ConcurrentChecks ==
    /\ \A k \in DOMAIN zsets : zsets[k].expires # -1
    /\ \A n \in 1..Len(insts.log) : insts.log[n].current_count >= 1
    /\ \A t \in 0..MaxLimClock :
           Cardinality(PassedInWindow(t)) <= insts.limit

-----------------------------------------------------------------------------
(* Properties of a read that runs while others write (under SpecReads) *)

ReadsNext ==
    \/ ReadBeginComments
    \/ ReadQuery
    \/ ReadCountReplies
    \/ ReadBeginStats
    \/ ReadCountTotal
    \/ ReadCountTopLevel
    \/ ReadSetCache
    \/ ReadEnd
    \/ RaceCreate
    \/ RaceUpdate
    \/ RaceDelete

SpecReads == Init /\ [][ReadsNext]_vars

\* C34: when a get_comments call that missed the cache and the writes that
\* ran during it have all returned, the entry cached under the key of the
\* call, if there is one, is the result computed from the current store,
\* and a get_comments call with the same parameters returns that result.
C34_NoStaleEntryAfterRace ==
    (reader.pc = "done" /\ reader.op = "get_comments") =>
        LET fresh == get_comments_query(ReaderQuery)
        IN  /\ reader.cache_key \in DOMAIN cache =>
                   cache[reader.cache_key].value = fresh.result
            /\ get_comments(ReaderQuery).outcome = "ok"
            /\ get_comments(ReaderQuery).result = fresh.result

\* C36: whatever creates and deletes run during a get_page_stats call that
\* missed the cache, the replies value returned is not negative and the
\* triple returned is the triple of true counts of the page at some moment
\* of the call.
C36_StatsSnapshot ==
    (reader.pc = "done" /\ reader.op = "get_page_stats") =>
        /\ reader.computed.result.replies >= 0
        /\ reader.computed.result \in reader.instants

-----------------------------------------------------------------------------
(* Properties of a reply created while its parent is deleted (under
   SpecReplyRace) *)

\* create_comment one statement at a time, and delete_comment requests
\* between any two of its statements
ReplyRaceNext ==
    \/ CallBegin
    \/ CallCheckParent
    \/ CallCheckSpam
    \/ CallEnrich
    \/ CallAnswer
    \/ CallPersist
    \/ CallClearCache
    \/ CallEnd
    \/ DeleteComment

SpecReplyRace == Init /\ [][ReplyRaceNext]_vars

\* C35: whatever delete_comment requests run between the statements of
\* create_comment, no step commits a reply whose parent is soft-deleted at
\* that moment: when the delete of the parent was committed first, the
\* reply is rejected.
C35_NoReplyUnderDeletedParent ==
    [][(/\ Len(store') = Len(store) + 1
        /\ store'[Len(store')] # RolledBack
        /\ store'[Len(store')].parent_id # None)
           => ~store[store'[Len(store')].parent_id[1]].is_deleted]_vars

-----------------------------------------------------------------------------
(* Properties of checks that fail (under SpecLimiter) *)

\* the entry a check at time t leaves in its sorted set
EntryFor(t) == [member |-> Decimal(t), score |-> t]

\* C37: a check that reaches redis, passed or failed, leaves an entry for
\* its time in the window of its key, the entries of the earlier checks
\* inside the window, failed ones included, are counted with it, and the
\* check is rejected whenever more than limit checks of any outcome, itself
\* included, lie inside the trailing window.
C37_FailedChecksCount ==
    (lim.pc = "checked" /\ lim.redis_ok) =>
        /\ clock = lim.time =>
               /\ lim.key \in DOMAIN zsets
               /\ EntryFor(lim.time) \in zsets[lim.key].members
               /\ \A n \in 1..Len(lim.earlier) :
                      lim.earlier[n] > lim.time - lim.window =>
                          EntryFor(lim.earlier[n])
                              \in zsets[lim.key].members
        /\ EarlierInWindow + 1 > lim.limit => ~lim.passed

-----------------------------------------------------------------------------
(* Properties of the rate-limit middleware (under SpecMiddleware) *)

MiddlewareNext == MwDispatch \/ MwTry \/ MwExcept \/ MwEnd

SpecMiddleware == Init /\ [][MiddlewareNext]_vars

\* C38: the middleware awaits call_next at most once for a request, also
\* when the handlers below it raise an exception that is no
\* RateLimitException.
C38_HandlerInvokedOnce == mw.calls <= 1

\* C39: a request to GET /api/health skips the middleware: it is handed
\* to its handler without going into the limiter checks, it is never
\* counted by a limiter (no sorted set is touched on its way) and it is
\* never answered with the rate-limit error.
C39_HealthSkipsLimiter ==
    (mw.path = "/api/health" /\ mw.pc \in {"except", "done"}) =>
        /\ mw.skipped
        /\ zsets = mw.zsets_before
        /\ mw.raised # "RateLimitException"
        /\ mw.outcome # "RateLimitException"

-----------------------------------------------------------------------------
(* C40: deleting a deleted comment *)

\* C40: delete_comment on a comment that is already soft-deleted succeeds
\* (it is not answered with NotFoundError) and leaves the table as the
\* first delete left it: the row is still there with is_deleted = TRUE and
\* no row has changed.
C40_DeleteIdempotent ==
    \A comment_id \in Ids :
        store[comment_id].is_deleted =>
            LET again == delete_comment(comment_id, "none")
            IN  /\ again.outcome = "Deleted"
                /\ again.store = store
                /\ Len(again.store) = Len(store)
                /\ again.store[comment_id].is_deleted

\* a table with a deleted comment and a comment that is not deleted: a
\* delete has acted, and a second delete of the same comment can follow
C40_Witness ==
    /\ \E comment_id \in Ids :
           /\ store[comment_id].is_deleted
           /\ delete_comment(comment_id, "none").outcome = "Deleted"
    /\ \E other \in Ids : ~store[other].is_deleted

====
